---- MODULE Spec2Model ----
(***************************************************************************)
(* A model of the cevia n-gram language model engine: tokenizer,          *)
(* vocabulary, n-gram trie, binary persistence, backward-reasoning        *)
(* predictor and auto-regressive generator.                               *)
(*                                                                         *)
(* Strings are sequences of one-character strings.  Heap blocks of the    *)
(* trie live in an arena (a sequence of NgramNode records) and pointers   *)
(* are arena indices, 0 being NULL.  Allocation (malloc, calloc, strdup,  *)
(* realloc) and opening a file for writing are taken to succeed.  The     *)
(* pattern index is written during training and never read; it is left    *)
(* out.  Scores are fixed-point numbers in units of 1/Milli.         *)
(***************************************************************************)
EXTENDS Integers, Sequences, FiniteSets, TLC

VARIABLES model, loaded, disk, saved, fed, trainCalls, out, gen, call, cursor,
          sent, released, firstOut, iters

vars == <<model, loaded, disk, saved, fed, trainCalls, out, gen, call, cursor,
          sent, released, firstOut, iters>>

(***************************************************************************)
(* Program constants                                                       *)
(***************************************************************************)
MaxTokens == 128
MaxWordLen == 32
MaxVocabSize == 65536
MaxCandidates == 100

(***************************************************************************)
(* Bounds of the model                                                     *)
(***************************************************************************)
MaxOrder == 3        \* createLMModel is called with maxN in 1..MaxOrder
MaxTrainCalls == 2   \* trainFromFile calls in one run
MaxK == 3            \* largest k handed to predictNextToken
MaxVocabOps == 4     \* getOrAddToken insertions in the vocabulary runs

(***************************************************************************)
(* Small helpers                                                           *)
(***************************************************************************)
Min(a, b) == IF a < b THEN a ELSE b
Max(a, b) == IF a > b THEN a ELSE b
EmptyMap == [x \in {} |-> 0]
Range(s) == {s[i] : i \in DOMAIN s}

(***************************************************************************)
(* Characters (ctype.h)                                                    *)
(***************************************************************************)
SpaceChars == {" ", "\t", "\n"}
PunctChars == {"!", ",", ".", "?", "<", ">", "/"}
UpperChars == {"A", "B", "H"}

isspace(c) == c \in SpaceChars
ispunct(c) == c \in PunctChars
tolower(c) ==
    CASE c = "A" -> "a"
      [] c = "B" -> "b"
      [] c = "H" -> "h"
      [] OTHER -> c

(***************************************************************************)
(* Tokenizer (common.c)                                                    *)
(***************************************************************************)
initSentence == <<>>

\* Variant: addToken without the MaxTokens guard
addTokenNoCap(s, word) ==
    LET wordLen == Len(word)
        copyLen == IF wordLen < MaxWordLen THEN wordLen ELSE MaxWordLen - 1
    IN  Append(s, SubSeq(word, 1, copyLen))

addToken(s, word) ==
    IF Len(s) < MaxTokens
    THEN LET wordLen == Len(word)
             copyLen == IF wordLen < MaxWordLen THEN wordLen ELSE MaxWordLen - 1
         IN  Append(s, SubSeq(word, 1, copyLen))
    ELSE s

\* One pass of the while loop of tokenizeLine on the locals i, word and s;
\* word holds word[0..j-1], so j = Len(word).  Once the loop condition is
\* false the locals stay as they are.
tokenizeStep(line, st) ==
    IF st.i <= Len(line) /\ Len(st.word) < MaxWordLen - 1
    THEN IF isspace(line[st.i]) \/ ispunct(line[st.i])
         THEN IF Len(st.word) > 0
              THEN [i |-> st.i + 1, word |-> <<>>, s |-> addToken(st.s, st.word)]
              ELSE [st EXCEPT !.i = st.i + 1]
         ELSE [i |-> st.i + 1, word |-> Append(st.word, tolower(line[st.i])), s |-> st.s]
    ELSE st

\* n passes of the loop, split in halves to keep the evaluation shallow
RECURSIVE tokenizeLoop(_, _, _)
tokenizeLoop(line, st, n) ==
    IF n = 0 THEN st
    ELSE IF n = 1 THEN tokenizeStep(line, st)
    ELSE LET half == tokenizeLoop(line, st, n \div 2)
         IN  IF half.i > Len(line) THEN half       \* the loop has ended
             ELSE tokenizeLoop(line, half, n - (n \div 2))

\* The loop ends within Len(line) passes; then the pending word is added
tokenizeLine(line, s) ==
    LET st == tokenizeLoop(line, [i |-> 1, word |-> <<>>, s |-> s], Len(line))
    IN  IF Len(st.word) > 0 THEN addToken(st.s, st.word) ELSE st.s

\* strcat of tokens separated by single spaces
RECURSIVE JoinTokens(_)
JoinTokens(ts) ==
    IF Len(ts) = 0 THEN <<>>
    ELSE IF Len(ts) = 1 THEN ts[1]
    ELSE ts[1] \o <<" ">> \o JoinTokens(Tail(ts))

(***************************************************************************)
(* Hash map (common.c).  Chaining compares keys with strcmp, so the map   *)
(* behaves as a function from keys to values.                             *)
(***************************************************************************)
hashMapGet(map, key) == IF key \in DOMAIN map THEN map[key] ELSE 0

hashMapPut(map, key, value) ==
    IF key \in DOMAIN map
    THEN [map EXCEPT ![key] = value]
    ELSE [k \in DOMAIN map \cup {key} |-> IF k = key THEN value ELSE map[k]]

(***************************************************************************)
(* Vocabulary (core/vocab.c).  idToToken[i + 1] is the string of id i;    *)
(* slots at and beyond size are not represented.  freed tells that        *)
(* idToToken points to a released block.                                  *)
(***************************************************************************)
UnkToken == <<"<", "u", "n", "k", ">">>
BosToken == <<"<", "s", ">">>
EosToken == <<"<", "/", "s", ">">>

\* Variant: the new id is taken one past the size
getOrAddTokenNextId(vocab, token) ==
    LET id == hashMapGet(vocab.tokenToId, token) IN
    IF id # 0
    THEN [vocab |-> vocab, id |-> id]
    ELSE [vocab |-> [tokenToId |-> hashMapPut(vocab.tokenToId, token, vocab.size + 1),
                     idToToken |-> Append(vocab.idToToken, token),
                     size      |-> vocab.size + 1,
                     capacity  |-> vocab.capacity,
                     freed     |-> vocab.freed],
          id |-> vocab.size + 1]

getOrAddToken(vocab, token) ==
    LET id == hashMapGet(vocab.tokenToId, token) IN
    IF id # 0
    THEN [vocab |-> vocab, id |-> id]
    ELSE LET newCapacity == IF vocab.size >= vocab.capacity
                            THEN vocab.capacity * 2 ELSE vocab.capacity
             newId == vocab.size
         IN  [vocab |-> [tokenToId |-> hashMapPut(vocab.tokenToId, token, newId),
                         idToToken |-> Append(vocab.idToToken, token),
                         size      |-> vocab.size + 1,
                         capacity  |-> newCapacity,
                         freed     |-> vocab.freed],
              id |-> newId]

createVocabulary ==
    LET v0 == [tokenToId |-> EmptyMap, idToToken |-> <<>>, size |-> 0,
               capacity |-> MaxVocabSize, freed |-> FALSE]
        v1 == getOrAddToken(v0, UnkToken).vocab
        v2 == getOrAddToken(v1, BosToken).vocab
    IN  getOrAddToken(v2, EosToken).vocab

getTokenById(vocab, id) ==
    IF id >= vocab.size THEN UnkToken ELSE vocab.idToToken[id + 1]

(***************************************************************************)
(* N-gram trie (ngram.c).  nodes is the arena; nodes[1] is the root that  *)
(* createNgramIndex allocates.  Counts stay far below 2^32 in every run,   *)
(* so uint32_t arithmetic on them never wraps.                            *)
(***************************************************************************)
NullNode == 0
NewNode(tokenId) == [tokenId |-> tokenId, count |-> 0, next |-> NullNode, children |-> NullNode]

createNgramIndex(maxN) ==
    [root |-> 1, maxN |-> maxN, totalNgrams |-> 0, nodes |-> <<NewNode(0)>>]

\* An NgramNode** is the children field or the next field of the node at `at`.
Deref(nodes, pp) ==
    IF pp.field = "children" THEN nodes[pp.at].children ELSE nodes[pp.at].next

\* Variant: the search does not compare token ids and ends at the tail
RECURSIVE seekSlotToEnd(_, _, _)
seekSlotToEnd(nodes, pp, tokenId) ==
    LET p == Deref(nodes, pp) IN
    IF p # NullNode
    THEN seekSlotToEnd(nodes, [field |-> "next", at |-> p], tokenId)
    ELSE pp

\* while (*next && (*next)->tokenId != tokenId) next = &((*next)->next);
RECURSIVE seekSlot(_, _, _)
seekSlot(nodes, pp, tokenId) ==
    LET p == Deref(nodes, pp) IN
    IF p # NullNode /\ nodes[p].tokenId # tokenId
    THEN seekSlot(nodes, [field |-> "next", at |-> p], tokenId)
    ELSE pp

\* Variant: a new node is linked at the head of the child list
descendPrepend(nodes, current, tokenId) ==
    LET pp == seekSlot(nodes, [field |-> "children", at |-> current], tokenId)
        p  == Deref(nodes, pp)
    IN  IF p # NullNode
        THEN [nodes |-> nodes, current |-> p]
        ELSE LET new == Len(nodes) + 1
                 head == [NewNode(tokenId) EXCEPT !.next = nodes[current].children]
             IN  [nodes |-> Append([nodes EXCEPT ![current].children = new], head),
                  current |-> new]

\* One round of the for loop of addNgram / addNgramWithCount.
descend(nodes, current, tokenId) ==
    LET pp == seekSlot(nodes, [field |-> "children", at |-> current], tokenId)
        p  == Deref(nodes, pp)
    IN  IF p # NullNode
        THEN [nodes |-> nodes, current |-> p]
        ELSE LET new == Len(nodes) + 1
                 linked == IF pp.field = "children"
                           THEN [nodes EXCEPT ![pp.at].children = new]
                           ELSE [nodes EXCEPT ![pp.at].next = new]
             IN  [nodes |-> Append(linked, NewNode(tokenId)), current |-> new]

RECURSIVE walkCreate(_, _, _, _, _)
walkCreate(nodes, current, tokens, i, n) ==
    IF i < n
    THEN LET d == descend(nodes, current, tokens[i + 1])
         IN  walkCreate(d.nodes, d.current, tokens, i + 1, n)
    ELSE [nodes |-> nodes, current |-> current]

addNgram(index, tokens, n) ==
    IF n < 1 \/ n > index.maxN THEN index
    ELSE LET w == walkCreate(index.nodes, index.root, tokens, 0, n)
         IN  [index EXCEPT !.nodes = [w.nodes EXCEPT ![w.current].count = @ + 1],
                           !.totalNgrams = @ + 1]

addNgramWithCount(index, tokens, n, count) ==
    IF n < 1 \/ n > index.maxN \/ count = 0 THEN index
    ELSE LET w == walkCreate(index.nodes, index.root, tokens, 0, n)
         IN  [index EXCEPT !.nodes = [w.nodes EXCEPT ![w.current].count = @ + count],
                           !.totalNgrams = @ + count]

\* while (next && next->tokenId != tokenId) next = next->next;
RECURSIVE findChild(_, _, _)
findChild(nodes, p, tokenId) ==
    IF p # NullNode /\ nodes[p].tokenId # tokenId
    THEN findChild(nodes, nodes[p].next, tokenId)
    ELSE p

RECURSIVE walkFind(_, _, _, _, _)
walkFind(nodes, current, tokens, i, n) ==
    IF i < n
    THEN LET c == findChild(nodes, nodes[current].children, tokens[i + 1])
         IN  IF c = NullNode THEN NullNode ELSE walkFind(nodes, c, tokens, i + 1, n)
    ELSE current

getNgramCount(index, tokens, n) ==
    IF n < 1 \/ n > index.maxN THEN 0
    ELSE LET c == walkFind(index.nodes, index.root, tokens, 0, n)
         IN  IF c = NullNode THEN 0 ELSE index.nodes[c].count

findPrefixNode(index, tokens, n) ==
    IF n < 1 \/ n > index.maxN THEN NullNode
    ELSE walkFind(index.nodes, index.root, tokens, 0, n)

\* Variant: the n-gram that ends at the last token is left out
RECURSIVE updateInnerShort(_, _, _, _, _)
updateInnerShort(index, tokens, length, i, n) ==
    IF n <= index.maxN /\ i + n < length
    THEN updateInnerShort(addNgram(index, SubSeq(tokens, i + 1, Len(tokens)), n),
                          tokens, length, i, n + 1)
    ELSE index

RECURSIVE updateInner(_, _, _, _, _)
updateInner(index, tokens, length, i, n) ==
    IF n <= index.maxN /\ i + n <= length
    THEN updateInner(addNgram(index, SubSeq(tokens, i + 1, Len(tokens)), n),
                     tokens, length, i, n + 1)
    ELSE index

RECURSIVE updateOuter(_, _, _, _)
updateOuter(index, tokens, length, i) ==
    IF i < length
    THEN updateOuter(updateInner(index, tokens, length, i, 1), tokens, length, i + 1)
    ELSE index

updateNgrams(index, tokens, length) ==
    IF length < 1 THEN index ELSE updateOuter(index, tokens, length, 0)

(***************************************************************************)
(* The iterator (ngram.c).  nextNgram keeps its position in a static      *)
(* pointer shared by every iterator; cur is that pointer.                 *)
(***************************************************************************)
nextNgram(nodes, itNode, cur) ==
    LET c == IF cur = NullNode THEN nodes[itNode].children ELSE nodes[cur].next
    IN  IF c = NullNode
        THEN [ret |-> 0, current |-> NullNode, token |-> 0, count |-> 0]
        ELSE [ret |-> 1, current |-> c, token |-> nodes[c].tokenId,
              count |-> nodes[c].count]

\* while (nextNgram(it, &token, 1, &count)) { ... }: the pairs it yields
RECURSIVE scanNgrams(_, _, _, _)
scanNgrams(nodes, itNode, cur, acc) ==
    LET r == nextNgram(nodes, itNode, cur) IN
    IF r.ret = 0
    THEN [list |-> acc, current |-> r.current]
    ELSE scanNgrams(nodes, itNode, r.current,
                    Append(acc, [token |-> r.token, count |-> r.count]))

\* The nodes of a sibling list, from p along next
RECURSIVE siblings(_, _)
siblings(nodes, p) ==
    IF p = NullNode THEN <<>> ELSE <<p>> \o siblings(nodes, nodes[p].next)

childrenOf(nodes, p) == siblings(nodes, nodes[p].children)

(***************************************************************************)
(* The model (lmModel.c)                                                   *)
(***************************************************************************)
createLMModel(maxN) ==
    [vocab |-> createVocabulary, ngrams |-> createNgramIndex(maxN),
     maxN |-> maxN, totalTokens |-> 0]

\* for (i < s.length) { tokenIds[i] = getOrAddToken(...); totalTokens++; }
\* Variant: totalTokens counts a token only when it is new to the vocabulary
RECURSIVE assignIdsNewOnly(_, _, _, _)
assignIdsNewOnly(m, s, i, tokenIds) ==
    IF i < Len(s)
    THEN LET r == getOrAddToken(m.vocab, s[i + 1])
             new == IF r.vocab.size > m.vocab.size THEN 1 ELSE 0
         IN  assignIdsNewOnly([m EXCEPT !.vocab = r.vocab, !.totalTokens = @ + new],
                              s, i + 1, Append(tokenIds, r.id))
    ELSE [model |-> m, tokenIds |-> tokenIds]

RECURSIVE assignIds(_, _, _, _)
assignIds(m, s, i, tokenIds) ==
    IF i < Len(s)
    THEN LET r == getOrAddToken(m.vocab, s[i + 1])
         IN  assignIds([m EXCEPT !.vocab = r.vocab, !.totalTokens = @ + 1],
                       s, i + 1, Append(tokenIds, r.id))
    ELSE [model |-> m, tokenIds |-> tokenIds]

\* The body of the fgets loop of trainFromFile for one line
trainLine(m, rawLine) ==
    LET len  == Len(rawLine)
        line == IF len > 0 /\ rawLine[len] = "\n" THEN SubSeq(rawLine, 1, len - 1)
                ELSE rawLine
        s    == tokenizeLine(line, initSentence)
    IN  IF Len(s) = 0 THEN m
        ELSE LET a == assignIds(m, s, 0, <<>>)
             IN  [a.model EXCEPT !.ngrams = updateNgrams(@, a.tokenIds, Len(s))]

\* The fgets loop from line i on.  Both branches of the comparison go on with
\* the same model: it only has a line's result evaluated before the next
\* line is read, which keeps the evaluation of a long file shallow.
RECURSIVE trainLines(_, _, _)
trainLines(m, lines, i) ==
    IF i <= Len(lines)
    THEN LET next == trainLine(m, lines[i])
         IN  IF next = m THEN trainLines(m, lines, i + 1)
             ELSE trainLines(next, lines, i + 1)
    ELSE m

\* A file is [exists, data]; a corpus file holds its lines, each with its "\n".
trainFromFile(m, file) ==
    IF ~file.exists THEN m ELSE trainLines(m, file.data, 1)

(***************************************************************************)
(* Persistence (core/vocab.c, lmModel.c).  A file is [exists, data]; data *)
(* is the sequence of fields written (one entry per integer field, one    *)
(* entry per byte of a token).  A read past the end of data is a short    *)
(* read.                                                                   *)
(***************************************************************************)
NoFile == [exists |-> FALSE, data |-> <<>>]
FileOf(data) == [exists |-> TRUE, data |-> data]
NullStr == <<"NULL">>      \* a char* that is NULL
U16 == 65536               \* uint16_t len wraps at 2^16

\* for (i < size) { len = (uint16_t)strlen(..); fwrite(&len..); fwrite(token, 1, len..); }
RECURSIVE saveTokens(_, _)
saveTokens(vocab, i) ==
    IF i < vocab.size
    THEN LET tok == vocab.idToToken[i + 1]
             len == Len(tok) % U16
         IN  <<len>> \o SubSeq(tok, 1, len) \o saveTokens(vocab, i + 1)
    ELSE <<>>

saveVocabulary(vocab) == FileOf(<<vocab.size>> \o saveTokens(vocab, 0))

\* The read loop of loadVocabulary; pos is the file position (1-based).
\* Variant: the map is rebuilt with every id shifted by one
RECURSIVE loadTokensShifted(_, _, _, _)
loadTokensShifted(vocab, data, pos, i) ==
    IF i < vocab.size /\ pos <= Len(data) /\ pos + data[pos] <= Len(data)
    THEN LET token == SubSeq(data, pos + 1, pos + data[pos])
         IN  loadTokensShifted([vocab EXCEPT
                                   !.idToToken[i + 1] = token,
                                   !.tokenToId = hashMapPut(@, token, i + 1)],
                               data, pos + 1 + data[pos], i + 1)
    ELSE vocab

RECURSIVE loadTokens(_, _, _, _)
loadTokens(vocab, data, pos, i) ==
    IF i < vocab.size
    THEN IF pos > Len(data)
         THEN vocab                                              \* len: short read
         ELSE LET len == data[pos] IN
              IF pos + len > Len(data)
              THEN vocab                                         \* bytes: short read
              ELSE LET token == SubSeq(data, pos + 1, pos + len)
                   IN  loadTokens([vocab EXCEPT
                                      !.idToToken[i + 1] = token,
                                      !.tokenToId = hashMapPut(@, token, i)],
                                  data, pos + 1 + len, i + 1)
    ELSE vocab

loadVocabulary(vocab, file) ==
    IF ~file.exists THEN vocab
    ELSE IF Len(file.data) < 1
         THEN \* the old array is released, the size read fails
              [vocab EXCEPT !.tokenToId = EmptyMap, !.freed = TRUE]
         ELSE LET size == file.data[1]
                  cleared == [tokenToId |-> EmptyMap,
                              idToToken |-> [j \in 1..size |-> NullStr],
                              size      |-> size,
                              capacity  |-> size * 2,
                              freed     |-> FALSE]
              IN  loadTokens(cleared, file.data, 2, 0)

\* Flatten a sequence of field tuples into one field sequence
RECURSIVE Flatten(_)
Flatten(ss) == IF Len(ss) = 0 THEN <<>> ELSE Head(ss) \o Flatten(Tail(ss))

\* The nested while loops of saveModel over first / second / third
\* Variant: a bigram record carries the count of its first token
bigramRecordsFirstCount(nodes, root) ==
    Flatten([a \in DOMAIN childrenOf(nodes, root) |->
        LET first == childrenOf(nodes, root)[a] IN
        Flatten([b \in DOMAIN childrenOf(nodes, first) |->
            LET second == childrenOf(nodes, first)[b] IN
            <<nodes[first].tokenId, nodes[second].tokenId, nodes[first].count>>])])

bigramRecords(nodes, root) ==
    Flatten([a \in DOMAIN childrenOf(nodes, root) |->
        LET first == childrenOf(nodes, root)[a] IN
        Flatten([b \in DOMAIN childrenOf(nodes, first) |->
            LET second == childrenOf(nodes, first)[b] IN
            <<nodes[first].tokenId, nodes[second].tokenId, nodes[second].count>>])])

trigramRecords(nodes, root) ==
    Flatten([a \in DOMAIN childrenOf(nodes, root) |->
        LET first == childrenOf(nodes, root)[a] IN
        Flatten([b \in DOMAIN childrenOf(nodes, first) |->
            LET second == childrenOf(nodes, first)[b] IN
            Flatten([c \in DOMAIN childrenOf(nodes, second) |->
                LET third == childrenOf(nodes, second)[c] IN
                <<nodes[first].tokenId, nodes[second].tokenId,
                  nodes[third].tokenId, nodes[third].count>>])])])

\* saveModel: the four files and the static cursor nextNgram is left with.
\* The unigram count comes from a first pass of the iterator, the records
\* from a second.
saveModel(m, cur) ==
    LET nodes   == m.ngrams.nodes
        root    == m.ngrams.root
        pass1   == scanNgrams(nodes, root, cur, <<>>)
        pass2   == scanNgrams(nodes, root, pass1.current, <<>>)
        uniRecs == Flatten([j \in DOMAIN pass2.list |->
                              <<pass2.list[j].token, pass2.list[j].count>>])
        bi      == bigramRecords(nodes, root)
        tri     == trigramRecords(nodes, root)
    IN  [disk |-> [vocab |-> saveVocabulary(m.vocab),
                   uni   |-> FileOf(<<m.totalTokens, Len(pass1.list)>> \o uniRecs),
                   bi    |-> FileOf(<<Len(bi) \div 3>> \o bi),
                   tri   |-> FileOf(<<Len(tri) \div 4>> \o tri)],
         current |-> pass2.current]

\* A record loop of loadModel: n records of `order` ids and a count, from
\* position pos; a short read of any field leaves the loop.
RECURSIVE loadRecords(_, _, _, _, _, _)
loadRecords(index, data, pos, i, n, order) ==
    IF i < n /\ pos + order <= Len(data)
    THEN loadRecords(addNgramWithCount(index, SubSeq(data, pos, pos + order - 1),
                                       order, data[pos + order]),
                     data, pos + order + 1, i + 1, n, order)
    ELSE index

\* A bigram or trigram file: the count field, then the records
loadTable(index, file, order) ==
    IF file.exists /\ Len(file.data) >= 1
    THEN loadRecords(index, file.data, 2, 0, file.data[1], order)
    ELSE index

\* Variant: loadModel returns when the .uni file cannot be opened
loadModelNeedsUni(m, d) ==
    LET m1 == [m EXCEPT !.vocab = loadVocabulary(@, d.vocab)] IN
    IF ~d.uni.exists \/ Len(d.uni.data) < 1
    THEN m1
    ELSE IF Len(d.uni.data) < 2
    THEN [m1 EXCEPT !.totalTokens = d.uni.data[1]]
    ELSE LET m2 == [m1 EXCEPT !.totalTokens = d.uni.data[1],
                              !.ngrams = loadRecords(@, d.uni.data, 3, 0,
                                                     d.uni.data[2], 1)]
         IN  [m2 EXCEPT !.ngrams = loadTable(loadTable(@, d.bi, 2), d.tri, 3)]

loadModel(m, d) ==
    LET m1 == [m EXCEPT !.vocab = loadVocabulary(@, d.vocab)] IN
    IF d.uni.exists /\ Len(d.uni.data) < 1
    THEN m1                                        \* totalTokens: short read, return
    ELSE IF d.uni.exists /\ Len(d.uni.data) < 2
    THEN [m1 EXCEPT !.totalTokens = d.uni.data[1]] \* unigramCount: short read, return
    ELSE LET m2 == IF d.uni.exists
                   THEN [m1 EXCEPT !.totalTokens = d.uni.data[1],
                                   !.ngrams = loadRecords(@, d.uni.data, 3, 0,
                                                          d.uni.data[2], 1)]
                   ELSE m1
         IN  [m2 EXCEPT !.ngrams = loadTable(loadTable(@, d.bi, 2), d.tri, 3)]

(***************************************************************************)
(* Release (freeLMModel, freeVocabulary, freeNgramIndex).  A release is    *)
(* the sequence of its accesses to heap blocks: [op, block] with op "read" *)
(* or "free" and block a pair <<kind, number>>.  An access is a fault when *)
(* its block was released before: by loadVocabulary, or earlier in the     *)
(* sequence.                                                               *)
(***************************************************************************)
\* for (i < size) { if (idToToken[i]) free(idToToken[i]); }
RECURSIVE freeTokens(_, _)
freeTokens(vocab, i) ==
    IF i < vocab.size
    THEN <<[op |-> "read", block |-> <<"idToToken", 0>>]>>
         \o (IF vocab.idToToken[i + 1] # NullStr
             THEN <<[op |-> "free", block |-> <<"token", i>>]>>
             ELSE <<>>)
         \o freeTokens(vocab, i + 1)
    ELSE <<>>

freeVocabulary(vocab) ==
    <<[op |-> "free", block |-> <<"tokenToId", 0>>]>>
    \o freeTokens(vocab, 0)
    \o <<[op |-> "free", block |-> <<"idToToken", 0>>],
         [op |-> "free", block |-> <<"vocab", 0>>]>>

RECURSIVE freeNgramNode(_, _)
freeNgramNode(nodes, node) ==
    IF node = NullNode THEN <<>>
    ELSE freeNgramNode(nodes, nodes[node].next)
         \o freeNgramNode(nodes, nodes[node].children)
         \o <<[op |-> "free", block |-> <<"node", node>>]>>

freeNgramIndex(index) ==
    freeNgramNode(index.nodes, index.root)
    \o <<[op |-> "free", block |-> <<"index", 0>>]>>

freeLMModel(m) ==
    freeVocabulary(m.vocab) \o freeNgramIndex(m.ngrams)
    \o <<[op |-> "free", block |-> <<"model", 0>>]>>

\* The blocks loadVocabulary released and left the vocabulary pointing to
releasedByLoad(vocab) ==
    IF vocab.freed
    THEN {<<"idToToken", 0>>} \cup {<<"token", i>> : i \in 0..(vocab.size - 1)}
    ELSE {}

faultsOf(events, releasedBefore) ==
    { events[k] : k \in { k \in DOMAIN events :
          \/ events[k].block \in releasedBefore
          \/ \E j \in 1..(k - 1) :
                events[j].op = "free" /\ events[j].block = events[k].block } }

(***************************************************************************)
(* Fixed-point arithmetic for the float scores.  A score x is held as the *)
(* integer floor(x * Milli).  The code scales a score by 1e6 and casts it  *)
(* to uint32_t; in units of 1/Milli the 2^32 of that cast is U32Span.      *)
(***************************************************************************)
Milli == 10 * 100
U32Span == 2 * 2147483 + 1       \* 2^32 / 1e6 in units of 1/Milli

\* floor(a * Milli / b), digit by digit so that no product leaves 32 bits
FixDiv(a, b) ==
    LET q0 == a \div b
        r0 == a % b
        d1 == (r0 * 10) \div b
        r1 == (r0 * 10) % b
        d2 == (r1 * 10) \div b
        r2 == (r1 * 10) % b
        d3 == (r2 * 10) \div b
    IN  q0 * Milli + d1 * 100 + d2 * 10 + d3

\* round(1e5 * ln n) for n = 1..100
LnE5 == <<
       0, 69315, 109861, 138629, 160944, 179176, 194591, 207944,
       219722, 230259, 239790, 248491, 256495, 263906, 270805, 277259,
       283321, 289037, 294444, 299573, 304452, 309104, 313549, 317805,
       321888, 325810, 329584, 333220, 336730, 340120, 343399, 346574,
       349651, 352636, 355535, 358352, 361092, 363759, 366356, 368888,
       371357, 373767, 376120, 378419, 380666, 382864, 385015, 387120,
       389182, 391202, 393183, 395124, 397029, 398898, 400733, 402535,
       404305, 406044, 407754, 409434, 411087, 412713, 414313, 415888,
       417439, 418965, 420469, 421951, 423411, 424850, 426268, 427667,
       429046, 430407, 431749, 433073, 434381, 435671, 436945, 438203,
       439445, 440672, 441884, 443082, 444265, 445435, 446591, 447734,
       448864, 449981, 451086, 452179, 453260, 454329, 455388, 456435,
       457471, 458497, 459512, 460517 >>

\* BetaUnigram * logf(fmaxf(num/den, 1e-9f)) for num <= den, Beta = 0.10
BetaLog(num, den) ==
    Max(0 - ((LnE5[den] - LnE5[num]) \div 1000), 0 - 2072)

\* powf(Decay, d), Decay = 0.85
RECURSIVE DecayPow(_)
DecayPow(d) == IF d = 0 THEN Milli ELSE (DecayPow(d - 1) * 850) \div Milli

\* (uint32_t)(score * 1000000.0f): exact for a score >= 0; for a negative
\* score the conversion is undefined, and a build either wraps modulo 2^32
\* or saturates at 0.
CastOutcomes == {"wrap", "saturate"}
CastU32(score, cast) ==
    IF score >= 0 THEN score
    ELSE IF cast = "wrap" THEN U32Span + score ELSE 0

RECURSIVE SumSeq(_)
SumSeq(xs) == IF Len(xs) = 0 THEN 0 ELSE Head(xs) + SumSeq(Tail(xs))

RemoveAt(xs, i) == SubSeq(xs, 1, i - 1) \o SubSeq(xs, i + 1, Len(xs))

\* qsort with compareTokenCountDesc: every arrangement in descending count
\* order (the order of equal counts is not specified).
RECURSIVE qsortDesc(_)
qsortDesc(arr) ==
    IF Len(arr) <= 1 THEN {arr}
    ELSE LET top == CHOOSE c \in {arr[i].count : i \in DOMAIN arr} :
                        \A j \in DOMAIN arr : arr[j].count <= c
         IN  UNION {{<<arr[i]>> \o rest : rest \in qsortDesc(RemoveAt(arr, i))} :
                    i \in {j \in DOMAIN arr : arr[j].count = top}}

(***************************************************************************)
(* Predictor (lmModel.c, predictNextToken)                                 *)
(***************************************************************************)
\* ids of the last L tokens of s, 0 where hashMapGet finds nothing
suffixIds(vocab, s, L) ==
    [i \in 1..L |-> hashMapGet(vocab.tokenToId, s[Len(s) - L + i])]

\* find-or-insert of one child's contribution into cand
addCandidate(cand, tokenId, contrib) ==
    LET hits == {j \in DOMAIN cand : cand[j].token = tokenId} IN
    IF hits = {}
    THEN IF Len(cand) < MaxCandidates
         THEN Append(cand, [token |-> tokenId, score |-> contrib])
         ELSE cand
    ELSE LET idx == CHOOSE j \in hits : \A h \in hits : j <= h
         IN  [cand EXCEPT ![idx].score = @ + contrib]

RECURSIVE accumulate(_, _, _, _, _)
accumulate(cand, nodes, kids, w, denom) ==
    IF Len(kids) = 0 THEN cand
    ELSE LET ch == nodes[Head(kids)]
             contrib == (w * ch.count) \div denom
         IN  accumulate(addCandidate(cand, ch.tokenId, contrib),
                        nodes, Tail(kids), w, denom)

\* for (L = maxContext; L >= 1; L--) { ... }
RECURSIVE backoff(_, _, _, _, _)
backoff(m, s, maxContext, L, cand) ==
    IF L < 1 THEN cand
    ELSE LET ctxIds == suffixIds(m.vocab, s, L)
             ok     == \A i \in 1..L : ctxIds[i] # 0
             node   == IF ok THEN findPrefixNode(m.ngrams, ctxIds, L) ELSE NullNode
             nodes  == m.ngrams.nodes
             kids   == IF node = NullNode THEN <<>> ELSE childrenOf(nodes, node)
             denom  == SumSeq([j \in DOMAIN kids |-> nodes[kids[j]].count])
             w      == L * DecayPow(maxContext - L)
         IN  IF ~ok \/ node = NullNode \/ Len(kids) = 0 \/ denom = 0
             THEN backoff(m, s, maxContext, L - 1, cand)
             ELSE backoff(m, s, maxContext, L - 1,
                          accumulate(cand, nodes, kids, w, denom))

\* cand[i].score += BetaUnigram * logf(fmaxf(p, 1e-9f)), when totalTokens > 0
withPrior(m, cand) ==
    IF m.totalTokens > 0
    THEN [i \in DOMAIN cand |->
            LET c == getNgramCount(m.ngrams, <<cand[i].token>>, 1)
                prior == IF c > 0 THEN BetaLog(c, m.totalTokens)
                         ELSE BetaLog(1, m.totalTokens + 1)
            IN  [cand[i] EXCEPT !.score = @ + prior]]
    ELSE cand

\* Variant: the top-k fill without the renormalization
fillTopRaw(buf, arr, k) ==
    LET candCount == Len(arr)
        filled == Min(k, candCount)
    IN  [topTokens |-> [i \in 1..k |-> IF i <= candCount THEN arr[i].token ELSE 0],
         scores    |-> [i \in 1..k |-> IF i <= candCount THEN arr[i].count ELSE 0],
         filled    |-> filled]

\* The top-k fill from the sorted candidates and the renormalization.
\* buf is the caller's [topTokens, scores]; returns the buffers and filled.
fillTop(buf, arr, k) ==
    LET candCount == Len(arr)
        filled == Min(k, candCount)
        tops == [i \in 1..k |-> IF i <= candCount THEN arr[i].token ELSE 0]
        raw  == [i \in 1..k |-> IF i <= candCount THEN arr[i].count ELSE 0]
        sum  == SumSeq(SubSeq(raw, 1, filled))
        norm == [i \in 1..k |-> IF i <= filled /\ sum > 0
                                THEN FixDiv(raw[i], sum) ELSE raw[i]]
    IN  [topTokens |-> tops, scores |-> norm, filled |-> filled]

\* Variant: the append takes every unigram, also one already in a slot
RECURSIVE padFromUnigramsNoSkip(_, _, _, _, _, _)
padFromUnigramsNoSkip(tops, scores, arr, j, outIdx, total) ==
    IF j <= Len(arr) /\ outIdx < Len(tops)
    THEN padFromUnigramsNoSkip([tops EXCEPT ![outIdx + 1] = arr[j].token],
                               [scores EXCEPT ![outIdx + 1] = FixDiv(arr[j].count, total)],
                               arr, j + 1, outIdx + 1, total)
    ELSE [topTokens |-> [t \in 1..Len(tops) |-> IF t <= outIdx THEN tops[t] ELSE 0],
          scores    |-> [t \in 1..Len(tops) |-> IF t <= outIdx THEN scores[t] ELSE 0]]

\* Variant: the slots after the last unigram are left as they were
RECURSIVE padFromUnigramsKeepRest(_, _, _, _, _, _)
padFromUnigramsKeepRest(tops, scores, arr, j, outIdx, total) ==
    IF j <= Len(arr) /\ outIdx < Len(tops)
    THEN LET cand == arr[j].token
             dup  == \E t \in 1..outIdx : tops[t] = cand
         IN  IF dup
             THEN padFromUnigramsKeepRest(tops, scores, arr, j + 1, outIdx, total)
             ELSE padFromUnigramsKeepRest([tops EXCEPT ![outIdx + 1] = cand],
                                          [scores EXCEPT ![outIdx + 1] = FixDiv(arr[j].count, total)],
                                          arr, j + 1, outIdx + 1, total)
    ELSE [topTokens |-> tops, scores |-> scores]

\* The duplicate-skipping append of the unigram fallback
RECURSIVE padFromUnigrams(_, _, _, _, _, _)
padFromUnigrams(tops, scores, arr, j, outIdx, total) ==
    IF j <= Len(arr) /\ outIdx < Len(tops)
    THEN LET cand == arr[j].token
             dup  == \E t \in 1..outIdx : tops[t] = cand
         IN  IF dup
             THEN padFromUnigrams(tops, scores, arr, j + 1, outIdx, total)
             ELSE padFromUnigrams([tops EXCEPT ![outIdx + 1] = cand],
                                  [scores EXCEPT ![outIdx + 1] = FixDiv(arr[j].count, total)],
                                  arr, j + 1, outIdx + 1, total)
    ELSE [topTokens |-> [t \in 1..Len(tops) |-> IF t <= outIdx THEN tops[t] ELSE 0],
          scores    |-> [t \in 1..Len(tops) |-> IF t <= outIdx THEN scores[t] ELSE 0]]

\* Variant: the filling loop stops at uniCount entries, without the call of
\* nextNgram that finds the end of the list and resets the static pointer
fallbackBoundedFill(m, tops, scores, filled, k, cur) ==
    LET nodes == m.ngrams.nodes
        pass1 == scanNgrams(nodes, m.ngrams.root, cur, <<>>)
        uniCount == Len(pass1.list)
        kids  == childrenOf(nodes, m.ngrams.root)
        last  == IF uniCount > 0 THEN kids[Len(kids)] ELSE pass1.current
        zeros == [t \in 1..k |-> 0]
    IN  IF uniCount > 0 /\ m.totalTokens > 0
        THEN {LET p == padFromUnigrams(tops, scores, arr, 1, filled, m.totalTokens)
              IN  [topTokens |-> p.topTokens, scores |-> p.scores,
                   current |-> last] :
              arr \in qsortDesc(pass1.list)}
        ELSE {[topTokens |-> zeros, scores |-> zeros, current |-> last]}

\* The fallback block: every outcome of its qsort.  The array is sized by
\* a first pass of the iterator and filled by a second.
fallback(m, tops, scores, filled, k, cur) ==
    LET nodes == m.ngrams.nodes
        pass1 == scanNgrams(nodes, m.ngrams.root, cur, <<>>)
        uniCount == Len(pass1.list)
        pass2 == IF uniCount > 0
                 THEN scanNgrams(nodes, m.ngrams.root, pass1.current, <<>>)
                 ELSE [list |-> <<>>, current |-> pass1.current]
        zeros == [t \in 1..k |-> 0]
    IN  IF uniCount > 0 /\ m.totalTokens > 0
        THEN {LET p == padFromUnigrams(tops, scores, arr, 1, filled, m.totalTokens)
              IN  [topTokens |-> p.topTokens, scores |-> p.scores,
                   current |-> pass2.current] :
              arr \in qsortDesc(pass2.list)}
        ELSE {[topTokens |-> zeros, scores |-> zeros, current |-> pass2.current]}

\* predictNextToken: the set of results [topTokens, scores, current] it can
\* leave in the caller's buffers buf = [topTokens, scores] of length >= k.
predictNextToken(m, context, buf, k, cur) ==
    LET s == tokenizeLine(context, initSentence) IN
    IF k <= 0 \/ Len(s) = 0
    THEN {[topTokens |-> buf.topTokens, scores |-> buf.scores, current |-> cur]}
    ELSE LET maxContext == Min(Len(s), m.maxN - 1)
             cand == withPrior(m, backoff(m, s, maxContext, maxContext, <<>>))
         IN  UNION {
               UNION {
                 LET f == IF Len(cand) > 0 THEN fillTop(buf, arr, k)
                          ELSE [topTokens |-> buf.topTokens, scores |-> buf.scores,
                                filled |-> 0]
                 IN  IF f.filled < k
                     THEN fallback(m, f.topTokens, f.scores, f.filled, k, cur)
                     ELSE {[topTokens |-> f.topTokens, scores |-> f.scores,
                            current |-> cur]}
                 : arr \in qsortDesc([i \in DOMAIN cand |->
                                        [token |-> cand[i].token,
                                         count |-> CastU32(cand[i].score, cast)]]) }
               : cast \in CastOutcomes }

(***************************************************************************)
(* Generator (lmModel.c, generateResponse and its helpers)                 *)
(***************************************************************************)
\* Variant: the greedy pick is the second slot
sampleTokenSecond(tokens, scores, k, temperature) ==
    IF k <= 1 THEN {0} ELSE {tokens[2]}

\* temperature is held in units of 1/Milli
sampleToken(tokens, scores, k, temperature) ==
    IF k <= 0 THEN {0}
    ELSE IF temperature <= 10 THEN {tokens[1]}             \* <= 0.01f: greedy
    ELSE IF scores[1] <= 0 THEN {tokens[1]}                \* sum <= 0
    \* adjusted[] is set up to the first score <= 0 only, and read for all k
    \* slots: with r drawn by rand() any slot can be the one returned
    ELSE {tokens[i] : i \in 1..Min(k, 64)}

EndWords ==
    { <<"y", "a">>, <<"o", "k", "e">>, <<"s", "i", "a", "p">>,
      <<"p", "a", "s", "t", "i">>, <<"d", "e", "h">>, <<"d", "o", "n", "g">>,
      <<"k", "o", "k">> }

\* Variant: without the length cap
shouldStopNoCap(generated, tokenCount, lastToken, lastScore) ==
    IF tokenCount <= 0 THEN FALSE
    ELSE IF Len(lastToken) > 0 /\ lastToken[Len(lastToken)] \in {".", "?", "!"} THEN TRUE
    ELSE IF tokenCount >= 5 /\ lastToken \in EndWords THEN TRUE
    ELSE lastScore < 30 /\ tokenCount >= 3

shouldStop(generated, tokenCount, lastToken, lastScore) ==
    IF tokenCount <= 0 THEN FALSE
    ELSE IF Len(lastToken) > 0 /\ lastToken[Len(lastToken)] \in {".", "?", "!"} THEN TRUE
    ELSE IF tokenCount >= 5 /\ lastToken \in EndWords THEN TRUE
    ELSE IF lastScore < 30 /\ tokenCount >= 3 THEN TRUE    \* < 0.03f
    ELSE IF tokenCount >= 25 THEN TRUE
    ELSE FALSE

\* Variant: only the two-token loop is looked for
hasRepetitionLoopOnly(tokenHistory, count) ==
    /\ count >= 4
    /\ tokenHistory[count] = tokenHistory[count - 2]
    /\ tokenHistory[count - 1] = tokenHistory[count - 3]

hasRepetition(tokenHistory, count) ==
    IF count < 2 THEN FALSE
    ELSE IF count >= 3 /\ tokenHistory[count] = tokenHistory[count - 1]
                       /\ tokenHistory[count - 1] = tokenHistory[count - 2] THEN TRUE
    ELSE IF count >= 4 /\ tokenHistory[count] = tokenHistory[count - 2]
                       /\ tokenHistory[count - 1] = tokenHistory[count - 3] THEN TRUE
    ELSE FALSE

\* The locals of generateResponse once the input is tokenized
genEnter(input, maxTokens, temperature) ==
    LET s == tokenizeLine(input, initSentence)
        contextStart == IF Len(s) > 7 THEN Len(s) - 7 ELSE 0
        base == [input |-> input, maxTokens |-> maxTokens,
                 temperature |-> temperature, generated |-> <<>>,
                 tokenHistory |-> <<>>, tokenCount |-> 0, i |-> 0,
                 lastScore |-> 0]
    IN  IF Len(s) = 0
        THEN base @@ [pc |-> "done", context |-> <<>>]
        ELSE base @@ [pc |-> IF 0 < maxTokens THEN "loop" ELSE "done",
                      context |-> JoinTokens(SubSeq(s, contextStart + 1, Len(s)))]

\* The new context: the old one and the new token, or its last 6 tokens and
\* the new token once it holds 7
nextContext(context, tokenText) ==
    LET ctxSent == tokenizeLine(context, initSentence) IN
    IF Len(ctxSent) < 7
    THEN context \o <<" ">> \o tokenText
    ELSE JoinTokens(SubSeq(ctxSent, Len(ctxSent) - 5, Len(ctxSent)))
         \o <<" ">> \o tokenText

\* One round of the generation loop with the prediction r and the sampled
\* token; the for condition of the next round is taken with it.
genRound(m, g, r, nextToken) ==
    IF r.scores[1] <= 0 THEN [g EXCEPT !.pc = "done"]
    ELSE LET tokenText == getTokenById(m.vocab, nextToken) IN
         IF Len(tokenText) = 0 THEN [g EXCEPT !.pc = "done"]
         ELSE LET generated == IF Len(g.generated) > 0
                               THEN g.generated \o <<" ">> \o tokenText
                               ELSE tokenText
                  history == Append(g.tokenHistory, nextToken)
                  count   == g.tokenCount + 1
                  stop    == \/ shouldStop(generated, count, tokenText, r.scores[1])
                             \/ hasRepetition(history, count)
              IN  [g EXCEPT !.generated = generated,
                            !.context = nextContext(g.context, tokenText),
                            !.tokenHistory = history,
                            !.tokenCount = count,
                            !.lastScore = r.scores[1],
                            !.i = IF stop THEN g.i ELSE g.i + 1,
                            !.pc = IF ~stop /\ g.i + 1 < g.maxTokens /\ g.i + 1 < 100
                                   THEN "loop" ELSE "done"]

(***************************************************************************)
(* Inputs of the runs                                                      *)
(***************************************************************************)
LineABC   == <<"a", " ", "b", " ", "c", "\n">>
LineABD   == <<"a", " ", "b", " ", "d", "\n">>
LineABCD  == <<"a", " ", "b", " ", "c", " ", "d", "\n">>
LineMixed == <<"A", ",", " ", "a", "!">>            \* no newline: the last line
LineBlank == <<"\n">>
LinePunct == <<"?", "!", "\n">>

Corpora ==
    { FileOf(<<LineABC, LineABD>>),
      FileOf(<<LineBlank, LineMixed>>),
      FileOf(<<LineABCD, LinePunct>>),
      FileOf(<<>>),
      NoFile }

LineHi == <<"h", "i", " ", "t", "h", "e", "r", "e", " ",
            "f", "r", "i", "e", "n", "d", "\n">>
LineCycle == <<"a", " ", "b", " ", "c", " ", "a", " ", "b", " ", "c", " ", "a", "\n">>
LineAB == <<"a", " ", "b", "\n">>

GenCorpora == { FileOf(<<LineCycle>>), FileOf(<<LineAB>>) }

\* generateResponse(input, maxTokens, temperature), temperature in 1/Milli
GenCalls ==
    { <<<<"a">>, 30, 0>>, <<<<"A", " ", "b", "?">>, 2, 0>>, <<<<"a">>, 0, 0>>,
      <<<<"a">>, 0 - 1, 0>>, <<<<" ", "\n">>, 3, 0>>,
      <<<<"c", " ", "a">>, 4, Milli>>, <<<<"x">>, 3, Milli>> }

\* "hi there friend" ten times
ScenarioCorpus == FileOf([j \in 1..10 |-> LineHi])

ScenarioCalls ==
    { <<<<"h", "i">>, 3, 0>>, <<<<"h", "i">>, 2, 0>>, <<<<"H", "i", "!">>, 3, 0>>,
      <<<<"f", "r", "i", "e", "n", "d">>, 3, 0>>, <<<<"h", "i">>, 3, Milli>> }

Contexts ==
    { <<"a", " ", "b">>, <<"a">>, <<"c">>, <<"x", " ", "a">>, <<>>, <<"?", "!">> }

(***************************************************************************)
(* State                                                                   *)
(*   model      the model being trained and queried                       *)
(*   loaded     <<>> or <<[m, of]>>: a fresh model after loadModel, and    *)
(*              what `saved` was at that moment                           *)
(*   disk       the four files of the model prefix                        *)
(*   saved      <<>> or <<m>>: the model as it was at the last saveModel   *)
(*   fed        the lines trainFromFile has read so far                   *)
(*   out        the caller's buffers around the last predictNextToken     *)
(*   gen        the locals of generateResponse                            *)
(*   call       the last vocabulary call: its argument, result and the    *)
(*              vocabulary before it                                      *)
(*   cursor     the static pointer of nextNgram                           *)
(*   sent       the last tokenizeLine call: its line and the sentence      *)
(*   released   whether freeLMModel ran on the loaded model, and the       *)
(*              accesses it made to blocks already released                *)
(*   firstOut   the first predictNextToken call of a query run             *)
(*   iters      the iterators made by ngramIterator, with what each has    *)
(*              returned, and the index the static pointer points into     *)
(***************************************************************************)
Unwritten == 0 - 1      \* content of a buffer slot nobody has written

NoDisk == [vocab |-> NoFile, uni |-> NoFile, bi |-> NoFile, tri |-> NoFile]
NoOut == [called |-> FALSE, context |-> <<>>, k |-> 0,
          topTokens |-> <<>>, scores |-> <<>>]
NoSent == [called |-> FALSE, line |-> <<>>, tokens |-> <<>>]
NoRelease == [done |-> FALSE, faults |-> {}]
NoIters == [list |-> <<>>, owner |-> "model"]
NoFirst == [called |-> FALSE, context |-> <<>>, k |-> 0, results |-> {}]
GenIdle == [pc |-> "idle", input |-> <<>>, maxTokens |-> 0, temperature |-> 0,
            context |-> <<>>, generated |-> <<>>, tokenHistory |-> <<>>,
            tokenCount |-> 0, i |-> 0, lastScore |-> 0]

Init ==
    /\ model \in {createLMModel(n) : n \in 1..MaxOrder}
    /\ loaded = <<>>
    /\ disk = NoDisk
    /\ saved = <<>>
    /\ fed = <<>>
    /\ trainCalls = 0
    /\ out = NoOut
    /\ gen = GenIdle
    /\ call = [op |-> "createVocabulary", token |-> <<>>, id |-> 0,
               text |-> <<>>, before |-> model.vocab]
    /\ cursor = NullNode
    /\ sent = NoSent
    /\ released = NoRelease
    /\ firstOut = NoFirst
    /\ iters = NoIters

\* Training comes first: the model is mutated by training, then used
\* read-only by prediction and generation.
TrainFromFile(file) ==
    /\ trainCalls < MaxTrainCalls
    /\ ~out.called
    /\ gen.pc = "idle"
    /\ model' = trainFromFile(model, file)
    /\ fed' = IF file.exists THEN fed \o file.data ELSE fed
    /\ trainCalls' = trainCalls + 1
    /\ UNCHANGED <<loaded, disk, saved, out, gen, call, cursor, sent, released, firstOut, iters>>

SaveModel ==
    /\ LET r == saveModel(model, cursor)
       IN  /\ disk' = r.disk
           /\ cursor' = r.current
    /\ saved' = <<model>>
    /\ UNCHANGED <<model, loaded, fed, trainCalls, out, gen, call, sent, released, firstOut, iters>>

\* loadModel into a model freshly created with the maxN of `model`
LoadModel ==
    /\ loaded' = <<[m  |-> loadModel(createLMModel(model.maxN), disk),
                    of |-> saved]>>
    /\ UNCHANGED <<model, disk, saved, fed, trainCalls, out, gen, call, cursor, sent, released, firstOut, iters>>

PredictNextToken(context, k) ==
    /\ gen.pc = "idle"
    /\ LET buf == [topTokens |-> [i \in 1..k |-> Unwritten],
                   scores    |-> [i \in 1..k |-> Unwritten]]
       IN  \E r \in predictNextToken(model, context, buf, k, cursor) :
              /\ out' = [called |-> TRUE, context |-> context, k |-> k,
                         topTokens |-> r.topTokens, scores |-> r.scores]
              /\ cursor' = r.current
    /\ UNCHANGED <<model, loaded, disk, saved, fed, trainCalls, gen, call, sent, released, firstOut, iters>>

Train == \E file \in Corpora : TrainFromFile(file)
Predict == \E context \in Contexts, k \in 0..MaxK : PredictNextToken(context, k)

Next == Train \/ SaveModel \/ LoadModel
Spec == Init /\ [][Next]_vars

NextPredict == Train \/ Predict
SpecPredict == Init /\ [][NextPredict]_vars

GenerateStart(input, maxTokens, temperature) ==
    /\ gen.pc = "idle"
    /\ ~out.called
    /\ gen' = genEnter(input, maxTokens, temperature)
    /\ UNCHANGED <<model, loaded, disk, saved, fed, trainCalls, out, call, cursor, sent, released, firstOut, iters>>

\* One round of the loop: predictNextToken into the round's own buffers,
\* sampleToken, and the bookkeeping that follows
GenerateStep ==
    /\ gen.pc = "loop"
    /\ LET buf == [topTokens |-> [j \in 1..10 |-> Unwritten],
                   scores    |-> [j \in 1..10 |-> Unwritten]]
       IN  \E r \in predictNextToken(model, gen.context, buf, 10, cursor) :
           \E nextToken \in sampleToken(r.topTokens, r.scores, 10, gen.temperature) :
              /\ gen' = genRound(model, gen, r, nextToken)
              /\ cursor' = r.current
    /\ UNCHANGED <<model, loaded, disk, saved, fed, trainCalls, out, call, sent, released, firstOut, iters>>

TrainGen == \E file \in GenCorpora : TrainFromFile(file)
Generate == \E c \in GenCalls : GenerateStart(c[1], c[2], c[3])

NextGen == TrainGen \/ Generate \/ GenerateStep
SpecGen == Init /\ [][NextGen]_vars

TrainScenario == TrainFromFile(ScenarioCorpus)
GenerateScenario == \E c \in ScenarioCalls : GenerateStart(c[1], c[2], c[3])

NextScenario == TrainScenario \/ GenerateScenario \/ GenerateStep
SpecScenario == Init /\ [][NextScenario]_vars

(***************************************************************************)
(* Vocabulary runs                                                         *)
(***************************************************************************)
VocabTokens ==
    { UnkToken, BosToken, EosToken, <<"a">>, <<"b">>, <<"h", "i">> }

GetOrAddToken(token) ==
    /\ model.vocab.size < 3 + MaxVocabOps
    /\ LET r == getOrAddToken(model.vocab, token)
       IN  /\ model' = [model EXCEPT !.vocab = r.vocab]
           /\ call' = [op |-> "getOrAddToken", token |-> token, id |-> r.id,
                       text |-> <<>>, before |-> model.vocab]
    /\ UNCHANGED <<loaded, disk, saved, fed, trainCalls, out, gen, cursor, sent, released, firstOut, iters>>

GetTokenById(id) ==
    /\ call' = [op |-> "getTokenById", token |-> <<>>, id |-> id,
                text |-> getTokenById(model.vocab, id), before |-> model.vocab]
    /\ UNCHANGED <<model, loaded, disk, saved, fed, trainCalls, out, gen, cursor, sent, released, firstOut, iters>>

SaveVocabulary ==
    /\ disk' = [disk EXCEPT !.vocab = saveVocabulary(model.vocab)]
    /\ UNCHANGED <<model, loaded, saved, fed, trainCalls, out, gen, call, cursor, sent, released, firstOut, iters>>

LoadVocabulary ==
    /\ model' = [model EXCEPT !.vocab = loadVocabulary(@, disk.vocab)]
    /\ call' = [op |-> "loadVocabulary", token |-> <<>>, id |-> 0,
                text |-> <<>>, before |-> model.vocab]
    /\ UNCHANGED <<loaded, disk, saved, fed, trainCalls, out, gen, cursor, sent, released, firstOut, iters>>

AddToken == \E token \in VocabTokens : GetOrAddToken(token)
LookupId == \E id \in 0..(3 + MaxVocabOps + 1) : GetTokenById(id)

NextVocab == AddToken \/ LookupId \/ SaveVocabulary \/ LoadVocabulary
SpecVocab == Init /\ [][NextVocab]_vars

(***************************************************************************)
(* Load runs: the files of a saved model are removed or cut short, then    *)
(* loadModel reads them into a fresh model or into a model in the state of *)
(* `model`, and freeLMModel releases the model loaded into.                *)
(***************************************************************************)
FileNames == {"vocab", "uni", "bi", "tri"}

\* The files as saveModel wrote them
WholeDisk == saveModel(saved[1], NullNode).disk

\* Files are removed or one file is cut, not both
RemoveFile(name) ==
    /\ saved # <<>>
    /\ loaded = <<>>
    /\ \A f \in FileNames : disk[f].exists => disk[f] = WholeDisk[f]
    /\ disk[name].exists
    /\ disk' = [disk EXCEPT ![name] = NoFile]
    /\ UNCHANGED <<model, loaded, saved, fed, trainCalls, out, gen, call, cursor, sent, released, firstOut, iters>>

\* The file keeps its first n fields; one file of a run is cut
TruncateFile(name, n) ==
    /\ saved # <<>>
    /\ loaded = <<>>
    /\ disk = WholeDisk
    /\ n < Len(disk[name].data)
    /\ disk' = [disk EXCEPT ![name].data = SubSeq(@, 1, n)]
    /\ UNCHANGED <<model, loaded, saved, fed, trainCalls, out, gen, call, cursor, sent, released, firstOut, iters>>

LoadModelInto(into) ==
    /\ saved # <<>>
    /\ loaded = <<>>
    /\ loaded' = <<[m |-> loadModel(into, disk), of |-> saved,
                    into |-> into, from |-> disk]>>
    /\ UNCHANGED <<model, disk, saved, fed, trainCalls, out, gen, call, cursor, sent, released, firstOut, iters>>

FreeLMModel ==
    /\ loaded # <<>>
    /\ ~released.done
    /\ released' = [done |-> TRUE,
                    faults |-> faultsOf(freeLMModel(loaded[1].m),
                                        releasedByLoad(loaded[1].m.vocab))]
    /\ UNCHANGED <<model, loaded, disk, saved, fed, trainCalls, out, gen, call, cursor, sent, firstOut, iters>>

LoadCorpora == { FileOf(<<LineABC, LineABD>>), FileOf(<<LineMixed>>), NoFile }

\* Training comes before the save
TrainLoad == saved = <<>> /\ \E file \in LoadCorpora : TrainFromFile(file)
SaveOnce == saved = <<>> /\ SaveModel
Remove == \E name \in FileNames : RemoveFile(name)
Truncate == \E name \in FileNames : \E n \in 0..Len(disk[name].data) : TruncateFile(name, n)
LoadInto == \E into \in {createLMModel(model.maxN), model} : LoadModelInto(into)

NextLoad == TrainLoad \/ SaveOnce \/ Remove \/ Truncate \/ LoadInto \/ FreeLMModel
SpecLoad == Init /\ [][NextLoad]_vars

(***************************************************************************)
(* Query runs: after training, predictNextToken and generateResponse are   *)
(* called in any order.  firstOut keeps the first predictNextToken call:   *)
(* its arguments, the model it saw and everything it could return.         *)
(***************************************************************************)
QueryCorpora == { FileOf(<<LineABC, LineABD>>) }

QueryContexts == { <<"a", " ", "b">>, <<"x", " ", "a">> }

QueryCalls == { <<<<"a">>, 2, 0>>, <<<<"x", " ", "b">>, 1, Milli>> }

\* What a predictNextToken call made now leaves in fresh buffers
ResultsOf(m, context, k, cur) ==
    LET buf == [topTokens |-> [i \in 1..k |-> Unwritten],
                scores    |-> [i \in 1..k |-> Unwritten]]
    IN  { [topTokens |-> r.topTokens, scores |-> r.scores] :
            r \in predictNextToken(m, context, buf, k, cur) }

PredictRecorded(context, k) ==
    /\ gen.pc # "loop"
    /\ LET buf == [topTokens |-> [i \in 1..k |-> Unwritten],
                   scores    |-> [i \in 1..k |-> Unwritten]]
       IN  \E r \in predictNextToken(model, context, buf, k, cursor) :
              /\ out' = [called |-> TRUE, context |-> context, k |-> k,
                         topTokens |-> r.topTokens, scores |-> r.scores]
              /\ cursor' = r.current
    /\ firstOut' = IF firstOut.called THEN firstOut
                   ELSE [called |-> TRUE, context |-> context, k |-> k,
                         model |-> model,
                         results |-> ResultsOf(model, context, k, cursor)]
    /\ UNCHANGED <<model, loaded, disk, saved, fed, trainCalls, gen, call, sent, released, iters>>

\* generateResponse, also after an earlier call has returned
GenerateAgain(input, maxTokens, temperature) ==
    /\ gen.pc # "loop"
    /\ gen' = genEnter(input, maxTokens, temperature)
    /\ UNCHANGED <<model, loaded, disk, saved, fed, trainCalls, out, call, cursor, sent, released, firstOut, iters>>

TrainQuery == \E file \in QueryCorpora : TrainFromFile(file)
PredictQuery == \E context \in QueryContexts, k \in 1..MaxK : PredictRecorded(context, k)
GenerateQuery == \E c \in QueryCalls : GenerateAgain(c[1], c[2], c[3])

NextQuery == TrainQuery \/ PredictQuery \/ GenerateQuery \/ GenerateStep
SpecQuery == Init /\ [][NextQuery]_vars

(***************************************************************************)
(* Ranking runs: corpora in which the successors of a token have unequal   *)
(* counts, some of them with an accumulated score below zero.              *)
(***************************************************************************)
LineFan == <<"a", " ", "b", " ", "a", " ", "b", " ", "a", " ", "c", " ",
             "a", " ", "d", " ", "a", " ", "e", "\n">>
LineACC == <<"a", " ", "b", " ", "a", " ", "c", " ", "a", " ", "c", "\n">>

RankCorpora == { FileOf(<<LineFan>>), FileOf(<<LineACC>>) }

RankContexts == { <<"a">>, <<"b">>, <<"b", " ", "a">> }

TrainRank == \E file \in RankCorpora : TrainFromFile(file)
PredictRank == \E context \in RankContexts, k \in 1..MaxK : PredictNextToken(context, k)

NextRank == TrainRank \/ PredictRank
SpecRank == Init /\ [][NextRank]_vars

(***************************************************************************)
(* Tokenizer runs: tokenizeLine on a line, into a fresh sentence.          *)
(***************************************************************************)
LineChars == {"a", "B", " ", ","}
MaxLineLen == 4
MaxJoinLen == 3

ShortLines == UNION { [1..n -> LineChars] : n \in 0..MaxLineLen }

RunOf(c, n) == [i \in 1..n |-> c]

\* A run of n letters around the word buffer's size, then two more words
LongRunLines ==
    { RunOf("a", n) \o <<" ", "b", " ", "B", "a">> :
          n \in (MaxWordLen - 2)..(MaxWordLen + 1) }

\* n one-letter words around the sentence's size
ManyWordLines ==
    { [i \in 1..(2 * n) |-> IF i % 2 = 1 THEN "a" ELSE " "] :
          n \in (MaxTokens - 1)..(MaxTokens + 2) }

\* Strings the tokenizer can give back, and their single-space joins
TokenPool ==
    { <<"a">>, <<"b", "a">>, RunOf("b", MaxWordLen - 2), RunOf("a", MaxWordLen - 1) }

TokenSeqs == UNION { [1..n -> TokenPool] : n \in 0..MaxJoinLen }

JoinedLines == { JoinTokens(ts) : ts \in TokenSeqs }

Lines == ShortLines \cup LongRunLines \cup ManyWordLines \cup JoinedLines

\* A call starts from initSentence and depends on nothing before it, so a
\* run tokenizes one line.
TokenizeLine(line) ==
    /\ ~sent.called
    /\ sent' = [called |-> TRUE, line |-> line,
                tokens |-> tokenizeLine(line, initSentence)]
    /\ UNCHANGED <<model, loaded, disk, saved, fed, trainCalls, out, gen, call, cursor, released, firstOut, iters>>

NextTokenize == \E line \in Lines : TokenizeLine(line)
SpecTokenize == Init /\ [][NextTokenize]_vars

(***************************************************************************)
(* Window runs: generateResponse on inputs of up to eight tokens, one of   *)
(* them with a token that fills the tokenizer's word buffer.               *)
(***************************************************************************)
LongWord == RunOf("a", MaxWordLen - 1)

WindowCalls ==
    { <<<<"a">>, 3, 0>>,
      <<<<"a", " ", "b", " ", "c", " ", "a", " ", "b", " ", "c", " ", "a", " ", "b">>, 3, 0>>,
      <<<<"c", " ", "c", " ", "c", " ", "c", " ", "c", " ", "c", " ">> \o LongWord, 3, 0>>,
      <<<<"b", " ", "c">>, 2, Milli>> }

TrainWindow == TrainFromFile(FileOf(<<LineCycle>>))
GenerateWindow == \E c \in WindowCalls : GenerateStart(c[1], c[2], c[3])

NextWindow == TrainWindow \/ GenerateWindow \/ GenerateStep
SpecWindow == Init /\ [][NextWindow]_vars

(***************************************************************************)
(* Iterator runs: after training, saving and loading, a caller makes       *)
(* iterators over the index of `model` or of the loaded model and calls    *)
(* nextNgram on them in any order.  An iterator it stops calling is        *)
(* abandoned.                                                              *)
(***************************************************************************)
MaxIters == 2

IndexOf(which) == IF which = "model" THEN model.ngrams ELSE loaded[1].m.ngrams

\* it->node = index->root; it->depth = 0;
NgramIterator(which) ==
    /\ Len(iters.list) < MaxIters
    /\ which = "loaded" => loaded # <<>>
    /\ iters' = [iters EXCEPT !.list =
                    Append(@, [index |-> which, node |-> IndexOf(which).root,
                               depth |-> 0, yielded |-> <<>>,
                               done |-> FALSE, freed |-> FALSE])]
    /\ UNCHANGED <<model, loaded, disk, saved, fed, trainCalls, out, gen, call, cursor, sent, released, firstOut>>

\* One nextNgram call on iterator i, which has not returned 0 yet.  The
\* static pointer is followed in the index it points into.
NextNgram(i) ==
    /\ i \in DOMAIN iters.list
    /\ ~iters.list[i].freed
    /\ ~iters.list[i].done
    /\ LET it    == iters.list[i]
           owner == IF cursor = NullNode THEN it.index ELSE iters.owner
           r     == nextNgram(IndexOf(owner).nodes, it.node, cursor)
       IN  /\ cursor' = r.current
           /\ iters' = [list  |-> [iters.list EXCEPT ![i] =
                                      IF r.ret = 1
                                      THEN [it EXCEPT !.yielded = Append(@, r.token)]
                                      ELSE [it EXCEPT !.done = TRUE]],
                        owner |-> owner]
    /\ UNCHANGED <<model, loaded, disk, saved, fed, trainCalls, out, gen, call, sent, released, firstOut>>

\* if (it) free(it);
FreeNgramIterator(i) ==
    /\ i \in DOMAIN iters.list
    /\ ~iters.list[i].freed
    /\ iters' = [iters EXCEPT !.list[i].freed = TRUE]
    /\ UNCHANGED <<model, loaded, disk, saved, fed, trainCalls, out, gen, call, cursor, sent, released, firstOut>>

IterCorpora == { FileOf(<<LineABC>>), FileOf(<<LineABD>>) }

\* The models are built before the first iterator is made
TrainIter == iters.list = <<>> /\ \E file \in IterCorpora : TrainFromFile(file)
SaveIter == iters.list = <<>> /\ saved = <<>> /\ SaveModel
LoadIter == iters.list = <<>> /\ saved # <<>> /\ loaded = <<>> /\ LoadModel
CreateIterator == \E which \in {"model", "loaded"} : NgramIterator(which)
StepIterator == \E i \in 1..MaxIters : NextNgram(i)
FreeIterator == \E i \in 1..MaxIters : FreeNgramIterator(i)

NextIter ==
    TrainIter \/ SaveIter \/ LoadIter \/ CreateIterator \/ StepIterator \/ FreeIterator
SpecIter == Init /\ [][NextIter]_vars

(***************************************************************************)
(* Reference notions the claims are stated with                           *)
(***************************************************************************)
\* All id sequences of length n over the ids of a vocabulary of that size
IdSeqs(size, n) == [1..n -> 0..(size - 1)]

\* The ids of a line's tokens, by looking each token up in the vocabulary
LineIds(vocab, rawLine) ==
    LET s == tokenizeLine(rawLine, initSentence)
    IN  [i \in 1..Len(s) |-> hashMapGet(vocab.tokenToId, s[i])]

\* Number of start positions at which g occurs as a contiguous run of ids
Occurrences(g, ids) ==
    Cardinality({i \in 0..(Len(ids) - Len(g)) :
                    \A j \in 1..Len(g) : ids[i + j] = g[j]})

\* The id lines of the lines fed, and the occurrences of g over all of them
IdLines(vocab, lines) == [l \in DOMAIN lines |-> LineIds(vocab, lines[l])]

OccurrencesIn(g, idLines) ==
    SumSeq([l \in DOMAIN idLines |-> Occurrences(g, idLines[l])])

RECURSIVE TokensIn(_)
TokensIn(lines) ==
    IF Len(lines) = 0 THEN 0
    ELSE Len(tokenizeLine(Head(lines), initSentence)) + TokensIn(Tail(lines))

UnigramCountSum(index) ==
    LET kids == childrenOf(index.nodes, index.root)
    IN  SumSeq([j \in DOMAIN kids |-> index.nodes[kids[j]].count])

(***************************************************************************)
(* C1.  Save / load round trip: after saveModel(M, p), loadModel(p) into  *)
(* a freshly created model of the same maxN gives the same vocabulary     *)
(* size, the same totalTokens and the same count for every id sequence of *)
(* order <= 3.                                                            *)
(***************************************************************************)
C1_SaveLoadRoundTrip ==
    (loaded # <<>> /\ loaded[1].of # <<>>) =>
        LET M  == loaded[1].of[1]
            M2 == loaded[1].m
        IN  /\ M2.vocab.size = M.vocab.size
            /\ M2.totalTokens = M.totalTokens
            /\ \A n \in 1..3 : \A g \in IdSeqs(M.vocab.size, n) :
                   getNgramCount(M2.ngrams, g, n) = getNgramCount(M.ngrams, g, n)

C1_Witness ==
    /\ loaded # <<>>
    /\ loaded[1].of # <<>>
    /\ loaded[1].of[1].totalTokens > 0
    /\ \E g \in IdSeqs(loaded[1].of[1].vocab.size, 3) :
           getNgramCount(loaded[1].m.ngrams, g, 3) > 0

(***************************************************************************)
(* C2.  After training a fresh model, for every order n in 1..maxN and    *)
(* every id sequence g of length n, getNgramCount(g, n) is the number of  *)
(* (line, start position) pairs at which g occurs as a contiguous run of  *)
(* the line's token ids; it is 0 for a sequence that never occurs.        *)
(***************************************************************************)
C2_CountsAreOccurrences ==
    LET idLines == IdLines(model.vocab, fed) IN
    \A n \in 1..model.maxN : \A g \in IdSeqs(model.vocab.size, n) :
        getNgramCount(model.ngrams, g, n) = OccurrencesIn(g, idLines)

\* lines "a b c" and "a b d", maxN = 3: count(a b) = 2, count(a b c) = 1
C2_Witness ==
    /\ model.maxN = 3
    /\ fed = <<LineABC, LineABD>>
    /\ getNgramCount(model.ngrams, <<3>>, 1) = 2
    /\ getNgramCount(model.ngrams, <<3, 4>>, 2) = 2
    /\ getNgramCount(model.ngrams, <<3, 4, 5>>, 3) = 1
    /\ getNgramCount(model.ngrams, <<3, 4, 6>>, 3) = 1
    /\ getNgramCount(model.ngrams, <<4, 3>>, 2) = 0

(***************************************************************************)
(* C3.  After any sequence of trainFromFile calls on a fresh model,       *)
(* totalTokens is the number of tokens processed and the sum of the       *)
(* counts of the root's children; empty lines change neither.             *)
(***************************************************************************)
C3_TotalTokens ==
    /\ model.totalTokens = TokensIn(fed)
    /\ model.totalTokens = UnigramCountSum(model.ngrams)

C3_Witness ==
    /\ trainCalls = 2
    /\ LineBlank \in Range(fed)
    /\ LineABC \in Range(fed)
    /\ model.totalTokens = 8

(***************************************************************************)
(* C4.  For every model, context and k > 0, predictNextToken writes all k *)
(* output slots, unused slots carrying id 0 and score 0; a context that   *)
(* tokenizes to zero tokens yields k zero-filled slots.                   *)
(***************************************************************************)
SlotsWritten ==
    \A i \in 1..out.k : out.topTokens[i] # Unwritten /\ out.scores[i] # Unwritten

C4_AllSlotsWritten ==
    (out.called /\ out.k > 0) =>
        /\ SlotsWritten
        /\ Len(tokenizeLine(out.context, initSentence)) = 0 =>
               \A i \in 1..out.k : out.topTokens[i] = 0 /\ out.scores[i] = 0

(***************************************************************************)
(* C5.  In every result of predictNextToken (k > 0) all k scores are      *)
(* non-negative and, whenever at least one is positive, they sum to 1     *)
(* (within the rounding of k quotients), also when slots were padded from *)
(* the unigram fallback.                                                  *)
(***************************************************************************)
C5_ScoresSumToOne ==
    (out.called /\ out.k > 0 /\ SlotsWritten) =>
        /\ \A i \in 1..out.k : out.scores[i] >= 0
        /\ (\E i \in 1..out.k : out.scores[i] > 0) =>
               /\ SumSeq(out.scores) <= Milli + out.k
               /\ SumSeq(out.scores) >= Milli - out.k

(***************************************************************************)
(* C6.  For any model, input, maxTokens and temperature, generateResponse *)
(* emits at most min(maxTokens, 25) tokens, and none when maxTokens <= 0  *)
(* or when the input tokenizes to nothing.                                *)
(***************************************************************************)
\* Number of space-separated words of a string built by generateResponse
WordCount(str) ==
    IF Len(str) = 0 THEN 0
    ELSE 1 + Cardinality({i \in DOMAIN str : str[i] = " "})

C6_AtMostCapTokens ==
    gen.pc # "idle" =>
        /\ gen.tokenCount <= Max(0, Min(gen.maxTokens, 25))
        /\ WordCount(gen.generated) = gen.tokenCount
        /\ Len(gen.tokenHistory) = gen.tokenCount
        /\ (gen.maxTokens <= 0 \/ Len(tokenizeLine(gen.input, initSentence)) = 0) =>
               gen.tokenCount = 0 /\ gen.generated = <<>>

\* a run that asks for more than 25 tokens and is ended by the cap
C6_Witness ==
    /\ gen.pc = "done"
    /\ gen.maxTokens > 25
    /\ gen.tokenCount = 25
    /\ WordCount(gen.generated) = 25

(***************************************************************************)
(* C7.  Model of maxN = 3 trained on "hi there friend" ten times,         *)
(* generateResponse("hi", 3, 0).                                          *)
(***************************************************************************)
Scenario ==
    /\ model.maxN = 3
    /\ fed = [j \in 1..10 |-> LineHi]
    /\ gen.pc = "done"
    /\ gen.input = <<"h", "i">>
    /\ gen.maxTokens = 3
    /\ gen.temperature = 0

ThereFriend == <<"t", "h", "e", "r", "e", " ", "f", "r", "i", "e", "n", "d">>

\* C7 as stated: the run produces exactly "there friend", no third token
C7_ExactlyThereFriend ==
    Scenario => gen.generated = ThereFriend /\ gen.tokenCount = 2

\* C7 as the code has it: the run emits three tokens, "there friend" and a
\* third token that the unigram fallback supplies with score 1/3 (one of hi,
\* there, friend, by the order qsort leaves among equal counts), and it is
\* the maxTokens bound of the loop that ends it.
C7_ThereFriendAndFallbackToken ==
    Scenario =>
        /\ gen.tokenCount = 3
        /\ gen.i = 3
        /\ gen.lastScore = FixDiv(1, 3)
        /\ \E t \in {<<"h", "i">>, <<"t", "h", "e", "r", "e">>,
                     <<"f", "r", "i", "e", "n", "d">>} :
               gen.generated = ThereFriend \o <<" ">> \o t

C7_Witness ==
    /\ Scenario
    /\ gen.generated = ThereFriend \o <<" ", "h", "i">>

(***************************************************************************)
(* C8.  getOrAddToken(t) on a vocabulary that already contains t (the     *)
(* reserved tokens <unk>, <s>, </s> included) returns t's existing id and *)
(* leaves size, id-to-token array and token-to-id map unchanged.          *)
(***************************************************************************)
C8_PresentTokenUnchanged ==
    (call.op = "getOrAddToken" /\ call.token \in Range(call.before.idToToken)) =>
        /\ model.vocab = call.before
        /\ call.before.idToToken[call.id + 1] = call.token

(***************************************************************************)
(* C9.  After createVocabulary ids 0, 1, 2 hold <unk>, <s>, </s>; a       *)
(* getOrAddToken that inserts returns exactly the size before the call    *)
(* (>= 3), and no getOrAddToken changes the string held at an assigned id.*)
(***************************************************************************)
C9_IdsAssignedInOrder ==
    /\ call.op = "createVocabulary" =>
           /\ model.vocab.size = 3
           /\ model.vocab.idToToken = <<UnkToken, BosToken, EosToken>>
    /\ call.op = "getOrAddToken" =>
           LET b == call.before
               v == model.vocab
           IN  /\ SubSeq(v.idToToken, 1, 3) = <<UnkToken, BosToken, EosToken>>
               /\ \A i \in 1..b.size : v.idToToken[i] = b.idToToken[i]
               /\ \/ v.size = b.size
                  \/ /\ v.size = b.size + 1
                     /\ call.id = b.size
                     /\ call.id >= 3
                     /\ v.idToToken[call.id + 1] = call.token

\* three insertions in a row got the ids 3, 4, 5
C9_Witness ==
    /\ call.op = "getOrAddToken"
    /\ call.id = 5
    /\ call.before.size = 5
    /\ model.vocab.size = 6

(***************************************************************************)
(* C10.  After any sequence of getOrAddToken calls, and after a save /    *)
(* load round trip, the lookup of the string stored at id i gives i for   *)
(* every 0 < i < size, and getTokenById gives "<unk>" for every id >=     *)
(* size.                                                                  *)
(***************************************************************************)
C10_LookupInvertsIds ==
    LET v == model.vocab IN
    /\ \A i \in 1..(v.size - 1) : hashMapGet(v.tokenToId, v.idToToken[i + 1]) = i
    /\ \A id \in v.size..(v.size + 2) : getTokenById(v, id) = UnkToken
    /\ (call.op = "getTokenById" /\ call.id >= call.before.size) =>
           call.text = UnkToken

\* a vocabulary with added tokens that was saved, changed, and loaded back
C10_Witness ==
    /\ call.op = "loadVocabulary"
    /\ disk.vocab.exists
    /\ model.vocab.size = 5
    /\ call.before.size = 6
    /\ hashMapGet(model.vocab.tokenToId, model.vocab.idToToken[5]) = 4

(***************************************************************************)
(* C11.  The vocabulary size never exceeds the implementation maximum:    *)
(* once size has reached it, getOrAddToken of a new token returns 0 and   *)
(* leaves the vocabulary unchanged.  The maximum the code holds is        *)
(* vocab.capacity: MaxVocabSize after createVocabulary, twice the size    *)
(* read after loadVocabulary.                                             *)
(***************************************************************************)
C11_SizeCapped ==
    /\ model.vocab.size <= Min(model.vocab.capacity, MaxVocabSize)
    /\ (/\ call.op = "getOrAddToken"
        /\ call.before.size >= call.before.capacity
        /\ call.token \notin Range(call.before.idToToken)) =>
           call.id = 0 /\ model.vocab = call.before

(***************************************************************************)
(* C12.  For every line, tokenizeLine returns, in order, the lowercased    *)
(* maximal runs of bytes that are neither whitespace nor punctuation, each *)
(* cut to its first 31 bytes, the first 128 of them; a run of 31 bytes or  *)
(* more does not change which tokens come from the rest of the line.       *)
(***************************************************************************)
IsDelimiter(c) == c \in SpaceChars \cup PunctChars

\* The maximal runs of non-delimiters of a line, in order
RunStarts(line) ==
    { i \in 1..Len(line) :
        /\ ~IsDelimiter(line[i])
        /\ (i = 1 \/ IsDelimiter(line[i - 1])) }

RunEnd(line, i) ==
    CHOOSE e \in i..Len(line) :
        /\ \A j \in i..e : ~IsDelimiter(line[j])
        /\ (e = Len(line) \/ IsDelimiter(line[e + 1]))

RunAt(line, i) == SubSeq(line, i, RunEnd(line, i))

\* The r-th run start (r >= 1)
NthStart(line, r) ==
    CHOOSE i \in RunStarts(line) :
        Cardinality({ j \in RunStarts(line) : j < i }) = r - 1

Lowercased(w) == [i \in 1..Len(w) |-> tolower(w[i])]

RunTokens(line) ==
    LET kept == Min(Cardinality(RunStarts(line)), MaxTokens)
    IN  [r \in 1..kept |->
            LET w == Lowercased(RunAt(line, NthStart(line, r)))
            IN  SubSeq(w, 1, Min(Len(w), MaxWordLen - 1))]

C12_TokensAreRuns ==
    sent.called => sent.tokens = RunTokens(sent.line)

(***************************************************************************)
(* C13.  For every line, tokenizeLine yields at most 128 tokens; every     *)
(* token is non-empty, at most 31 bytes long, holds no whitespace or       *)
(* punctuation byte and no uppercase letter; the empty line yields the     *)
(* empty sequence.                                                         *)
(***************************************************************************)
IsToken(w) ==
    /\ Len(w) >= 1
    /\ Len(w) <= MaxWordLen - 1
    /\ \A i \in 1..Len(w) :
          /\ ~isspace(w[i])
          /\ ~ispunct(w[i])
          /\ w[i] \notin UpperChars

C13_TokensWellFormed ==
    sent.called =>
        /\ Len(sent.tokens) <= MaxTokens
        /\ \A t \in 1..Len(sent.tokens) : IsToken(sent.tokens[t])
        /\ (sent.line = <<>> => sent.tokens = <<>>)

\* A line of more words than a sentence holds has been cut to MaxTokens
C13_Witness ==
    /\ sent.called
    /\ Cardinality(RunStarts(sent.line)) > MaxTokens
    /\ Len(sent.tokens) = MaxTokens

(***************************************************************************)
(* C14.  For every sequence of at most 128 tokens that satisfy the         *)
(* tokenizer's output rules (tokens of exactly 31 bytes included),         *)
(* tokenizing the single-space join of the sequence returns that sequence. *)
(***************************************************************************)
C14_JoinRoundTrip ==
    \A ts \in TokenSeqs :
        (/\ sent.called
         /\ sent.line = JoinTokens(ts)
         /\ Len(ts) <= MaxTokens
         /\ \A t \in 1..Len(ts) : IsToken(ts[t]))
            => sent.tokens = ts

(***************************************************************************)
(* C15.  loadModel completes when any of the .uni, .bi, .tri files is      *)
(* absent: the absent table is empty and every table whose file is present *)
(* is loaded.  Stated for a fresh model and files as saveModel wrote them: *)
(* the counts of an order are the saved ones when its file is present and  *)
(* 0 when it is absent, totalTokens likewise with the .uni file.           *)
(***************************************************************************)
TableFile(d, n) == IF n = 1 THEN d.uni ELSE IF n = 2 THEN d.bi ELSE d.tri

FreshLoadOfWholeFiles ==
    /\ loaded # <<>>
    /\ loaded[1].into = createLMModel(loaded[1].into.maxN)
    /\ loaded[1].from.vocab = WholeDisk.vocab
    /\ \A f \in FileNames :
          loaded[1].from[f].exists => loaded[1].from[f] = WholeDisk[f]

C15_AbsentTablesAreEmpty ==
    FreshLoadOfWholeFiles =>
        LET m == loaded[1].m
            d == loaded[1].from
            M == loaded[1].of[1]
        IN  /\ m.vocab.size = M.vocab.size
            /\ m.totalTokens = IF d.uni.exists THEN M.totalTokens ELSE 0
            /\ \A n \in 1..3 : \A g \in IdSeqs(M.vocab.size, n) :
                  getNgramCount(m.ngrams, g, n) =
                      IF TableFile(d, n).exists
                      THEN getNgramCount(M.ngrams, g, n)
                      ELSE 0

\* The .uni file is absent and a bigram has been loaded all the same
C15_Witness ==
    /\ FreshLoadOfWholeFiles
    /\ ~loaded[1].from.uni.exists
    /\ loaded[1].from.bi.exists
    /\ \E g \in IdSeqs(loaded[1].m.vocab.size, 2) :
          getNgramCount(loaded[1].m.ngrams, g, 2) > 0

(***************************************************************************)
(* C16.  If opening a file fails the model is left untouched: a            *)
(* trainFromFile on a corpus that cannot be opened, and a loadModel whose  *)
(* .vocab file cannot be opened, leave the vocabulary, the trie and        *)
(* totalTokens as they were before the call.                               *)
(***************************************************************************)
C16_OpenFailureLeavesModel ==
    [][ /\ TrainFromFile(NoFile) => model' = model
        /\ \A into \in {createLMModel(model.maxN), model} :
              (LoadModelInto(into) /\ ~disk.vocab.exists) =>
                  /\ loaded'[1].m.vocab = into.vocab
                  /\ loaded'[1].m.ngrams = into.ngrams
                  /\ loaded'[1].m.totalTokens = into.totalTokens ]_vars

(***************************************************************************)
(* C17.  loadModel returns on the first short read: once a read from the   *)
(* .vocab, .uni, .bi or .tri file comes back short, no record of a later   *)
(* file is added to the model.                                             *)
(***************************************************************************)
\* The file ends before the fields its header announces
VocabShort(file) ==
    /\ file.exists
    /\ LET v == loadVocabulary(createVocabulary, file)
       IN  v.freed \/ NullStr \in Range(v.idToToken)

UniShort(file) ==
    /\ file.exists
    /\ (Len(file.data) < 2 \/ Len(file.data) < 2 + 2 * file.data[2])

TableShort(file, order) ==
    /\ file.exists
    /\ (Len(file.data) < 1 \/ Len(file.data) < 1 + (order + 1) * file.data[1])

SameCounts(a, b, size, n) ==
    \A g \in IdSeqs(size, n) : getNgramCount(a, g, n) = getNgramCount(b, g, n)

C17_ShortReadStopsLoad ==
    loaded # <<>> =>
        LET m    == loaded[1].m
            into == loaded[1].into
            d    == loaded[1].from
            size == loaded[1].of[1].vocab.size
        IN  /\ VocabShort(d.vocab) =>
                  /\ m.totalTokens = into.totalTokens
                  /\ \A n \in 1..3 : SameCounts(m.ngrams, into.ngrams, size, n)
            /\ UniShort(d.uni) =>
                  \A n \in 2..3 : SameCounts(m.ngrams, into.ngrams, size, n)
            /\ TableShort(d.bi, 2) =>
                  SameCounts(m.ngrams, into.ngrams, size, 3)

(***************************************************************************)
(* C18.  After loadModel met a short read in the .vocab file, at any point *)
(* (a file too short for the size field, or cut inside the token list),    *)
(* freeLMModel releases the model without freeing a block twice and        *)
(* without reading through a released pointer.                             *)
(***************************************************************************)
C18_FreeableAfterShortVocab ==
    (/\ released.done
     /\ VocabShort(loaded[1].from.vocab)) => released.faults = {}

(***************************************************************************)
(* C20.  With the model of maxN = 3 trained on the lines "a b c" and       *)
(* "a b d", predictNextToken on the context "a b" with k = 2 returns the   *)
(* ids of c and d, in some order, each with score 0.5.                     *)
(***************************************************************************)
TrainedOnAbcAbd ==
    /\ model.maxN = 3
    /\ fed = <<LineABC, LineABD>>

AskedAfterAB ==
    /\ out.called
    /\ out.context = <<"a", " ", "b">>
    /\ out.k = 2

C20_CAndDHalfEach ==
    (TrainedOnAbcAbd /\ AskedAfterAB) =>
        /\ {out.topTokens[1], out.topTokens[2]} =
               {hashMapGet(model.vocab.tokenToId, <<"c">>),
                hashMapGet(model.vocab.tokenToId, <<"d">>)}
        /\ hashMapGet(model.vocab.tokenToId, <<"c">>) # 0
        /\ hashMapGet(model.vocab.tokenToId, <<"d">>) # 0
        /\ out.scores = <<Milli \div 2, Milli \div 2>>

C20_Witness ==
    /\ TrainedOnAbcAbd
    /\ AskedAfterAB
    /\ out.topTokens[1] # out.topTokens[2]

SuffixBarren(m, s, L) ==
    LET ids == [i \in 1..L |-> hashMapGet(m.vocab.tokenToId, s[Len(s) - L + i])]
        node == findPrefixNode(m.ngrams, ids, L)
    IN  \/ \E i \in 1..L : ids[i] = 0
        \/ node = NullNode
        \/ m.ngrams.nodes[node].children = NullNode

NoCandidate(m, context) ==
    LET s == tokenizeLine(context, initSentence)
    IN  /\ Len(s) > 0
        /\ \A L \in 1..Min(Len(s), m.maxN - 1) : SuffixBarren(m, s, L)

\* The counts of a sequence of counts, highest first
RECURSIVE CountsDesc(_)
CountsDesc(cs) ==
    IF Len(cs) = 0 THEN <<>>
    ELSE LET top == CHOOSE i \in DOMAIN cs : \A j \in DOMAIN cs : cs[j] <= cs[i]
         IN  <<cs[top]>> \o CountsDesc(RemoveAt(cs, top))

UnigramIds(m) ==
    [i \in DOMAIN childrenOf(m.ngrams.nodes, m.ngrams.root) |->
        m.ngrams.nodes[childrenOf(m.ngrams.nodes, m.ngrams.root)[i]].tokenId]

UnigramCounts(m) == [i \in DOMAIN UnigramIds(m) |-> getNgramCount(m.ngrams, <<UnigramIds(m)[i]>>, 1)]

FallbackCase ==
    /\ out.called
    /\ out.k > 0
    /\ model.totalTokens > 0
    /\ NoCandidate(model, out.context)

C21_PureUnigramFallback ==
    FallbackCase =>
        LET ranked == CountsDesc(UnigramCounts(model))
        IN  \A j \in 1..out.k :
               IF j <= Len(ranked)
               THEN /\ out.topTokens[j] \in Range(UnigramIds(model))
                    /\ getNgramCount(model.ngrams, <<out.topTokens[j]>>, 1) = ranked[j]
                    /\ out.scores[j] = FixDiv(ranked[j], model.totalTokens)
               ELSE /\ out.topTokens[j] = 0
                    /\ out.scores[j] = 0

\* A fallback with both kinds of slot: unigrams, then zero padding
C21_Witness ==
    /\ FallbackCase
    /\ out.k > Len(UnigramIds(model))
    /\ out.topTokens[1] # 0
    /\ out.topTokens[out.k] = 0

(***************************************************************************)
(* C22.  In every predictNextToken result the ranking is by score: the     *)
(* scores do not increase from slot 0 to slot k-1, also when the slots     *)
(* after the candidates are padded from the unigram fallback.              *)
(***************************************************************************)
Predicted ==
    /\ out.called
    /\ out.k > 0
    /\ Len(tokenizeLine(out.context, initSentence)) > 0

C22_ScoresNonIncreasing ==
    Predicted =>
        \A j \in 1..(out.k - 1) : out.scores[j] >= out.scores[j + 1]

(***************************************************************************)
(* C23.  Candidates are ranked by their accumulated score (suffix          *)
(* contributions plus unigram log-prior), highest first: a candidate with  *)
(* a strictly larger accumulated score is never placed after one with a    *)
(* smaller score, also when the log-prior makes accumulated scores         *)
(* negative.                                                               *)
(***************************************************************************)
\* The candidates of the last call with their accumulated scores
Accumulated ==
    LET s == tokenizeLine(out.context, initSentence)
        maxContext == Min(Len(s), model.maxN - 1)
    IN  withPrior(model, backoff(model, s, maxContext, maxContext, <<>>))

\* The slot (from 1) a candidate was placed in, 0 when it was left out
SlotOf(cand, token) ==
    LET filled == Min(out.k, Len(cand))
        hits == { j \in 1..filled : out.topTokens[j] = token }
    IN  IF hits = {} THEN 0 ELSE CHOOSE j \in hits : \A h \in hits : j <= h

C23_RankedByAccumulatedScore ==
    Predicted =>
        LET cand == Accumulated IN
        \A x, y \in DOMAIN cand :
            (cand[x].score > cand[y].score /\ SlotOf(cand, cand[y].token) # 0) =>
                /\ SlotOf(cand, cand[x].token) # 0
                /\ SlotOf(cand, cand[x].token) < SlotOf(cand, cand[y].token)

(***************************************************************************)
(* C24.  In every predictNextToken result no token id occurs in two slots  *)
(* that both carry a positive score: the unigram fallback fills the        *)
(* remaining slots only with ids not placed from the candidates.           *)
(***************************************************************************)
C24_NoIdTwice ==
    Predicted =>
        \A i, j \in 1..out.k :
            (/\ i # j
             /\ out.scores[i] > 0
             /\ out.scores[j] > 0) => out.topTokens[i] # out.topTokens[j]

\* A candidate that is also the most frequent unigram sits in slot 0, and
\* the fallback has filled the next slot with another id
C24_Witness ==
    /\ Predicted
    /\ out.k >= 2
    /\ Len(Accumulated) = 1
    /\ Accumulated[1].token = out.topTokens[1]
    /\ \A u \in DOMAIN UnigramCounts(model) :
          UnigramCounts(model)[u] <=
              getNgramCount(model.ngrams, <<out.topTokens[1]>>, 1)
    /\ out.scores[2] > 0

(***************************************************************************)
(* C25.  generateResponse emits no further token after an emission that    *)
(* makes the last three emitted ids equal, or that makes the last two      *)
(* emitted ids equal, in order, to the two emitted before them: the        *)
(* emitted history holds such a repetition only as its final suffix, and   *)
(* then the run has ended.                                                 *)
(***************************************************************************)
\* The first n ids of h end in a repetition
RepeatsAt(h, n) ==
    \/ n >= 3 /\ h[n] = h[n - 1] /\ h[n - 1] = h[n - 2]
    \/ n >= 4 /\ h[n] = h[n - 2] /\ h[n - 1] = h[n - 3]

C25_StopsAtRepetition ==
    \A n \in 1..Len(gen.tokenHistory) :
        RepeatsAt(gen.tokenHistory, n) =>
            /\ n = Len(gen.tokenHistory)
            /\ gen.pc = "done"

\* A run ended by three equal ids in a row while more tokens were asked for
C25_Witness ==
    /\ gen.pc = "done"
    /\ Len(gen.tokenHistory) >= 3
    /\ Len(gen.tokenHistory) < gen.maxTokens
    /\ RepeatsAt(gen.tokenHistory, Len(gen.tokenHistory))

(***************************************************************************)
(* C26.  Throughout generateResponse the context window handed to the      *)
(* predictor holds the last min(7, n) tokens of the sequence of the input  *)
(* tokens followed by the tokens emitted so far (n its length); it never   *)
(* holds more than 7 tokens.                                               *)
(***************************************************************************)
\* The words of a string of words joined by single spaces
RECURSIVE SplitWords(_, _, _)
SplitWords(str, i, word) ==
    IF i > Len(str) THEN (IF Len(word) > 0 THEN <<word>> ELSE <<>>)
    ELSE IF str[i] = " "
         THEN <<word>> \o SplitWords(str, i + 1, <<>>)
         ELSE SplitWords(str, i + 1, Append(word, str[i]))

\* Input tokens, then the texts of the emitted ids
GenSequence ==
    tokenizeLine(gen.input, initSentence)
    \o [j \in DOMAIN gen.tokenHistory |-> getTokenById(model.vocab, gen.tokenHistory[j])]

LastTokens(seq, w) == SubSeq(seq, Len(seq) - w + 1, Len(seq))

C26_WindowIsLastSeven ==
    (gen.pc # "idle" /\ Len(tokenizeLine(gen.input, initSentence)) > 0) =>
        LET window == SplitWords(gen.context, 1, <<>>)
        IN  /\ Len(window) <= 7
            /\ window = LastTokens(GenSequence, Min(7, Len(GenSequence)))

(***************************************************************************)
(* C27.  After any sequence of addNgram, addNgramWithCount, updateNgrams   *)
(* and loadModel operations, every non-root trie node lies at depth        *)
(* <= maxN and has a strictly positive count.                              *)
(***************************************************************************)
\* The nodes d links below the root
RECURSIVE NodesAtDepth(_, _)
NodesAtDepth(index, d) ==
    IF d = 0 THEN {index.root}
    ELSE UNION { Range(childrenOf(index.nodes, p)) : p \in NodesAtDepth(index, d - 1) }

DepthBounded(index) ==
    \A p \in DOMAIN index.nodes \ {index.root} :
        \E d \in 1..index.maxN : p \in NodesAtDepth(index, d)

CountsPositive(index) ==
    \A p \in DOMAIN index.nodes \ {index.root} : index.nodes[p].count > 0

C27_NodesDeepAndPositive ==
    /\ DepthBounded(model.ngrams) /\ CountsPositive(model.ngrams)
    /\ loaded # <<>> =>
          /\ DepthBounded(loaded[1].m.ngrams)
          /\ CountsPositive(loaded[1].m.ngrams)

(***************************************************************************)
(* C28.  Saving a trained model and loading it into a fresh model of the   *)
(* same maxN reproduces the stored child order: for the root and for every *)
(* node at depth 1 or 2 the sequence of child token ids, in child-list     *)
(* order, is the same in the reloaded trie as in the saved one, and the    *)
(* tables saveModel would write from the reloaded model are the tables it  *)
(* wrote from the original.                                                *)
(***************************************************************************)
\* The child ids of p in list order, each with the same for its own
\* children, for the nodes at depth d .. 2
RECURSIVE ChildOrder(_, _, _)
ChildOrder(index, p, d) ==
    IF d > 2 THEN <<>>
    ELSE LET kids == childrenOf(index.nodes, p)
         IN  [j \in DOMAIN kids |->
                 <<index.nodes[kids[j]].tokenId, ChildOrder(index, kids[j], d + 1)>>]

TablesOf(m) ==
    LET d == saveModel(m, NullNode).disk IN <<d.uni, d.bi, d.tri>>

C28_ChildOrderReproduced ==
    (loaded # <<>> /\ loaded[1].of # <<>>) =>
        LET M  == loaded[1].of[1]
            M2 == loaded[1].m
        IN  /\ ChildOrder(M2.ngrams, M2.ngrams.root, 0)
                 = ChildOrder(M.ngrams, M.ngrams.root, 0)
            /\ TablesOf(M2) = TablesOf(M)

\* A reload of a trie whose root, a depth-1 node and a depth-2 node each
\* have several children
C28_Witness ==
    /\ loaded # <<>>
    /\ loaded[1].of # <<>>
    /\ LET index == loaded[1].m.ngrams
       IN  \A d \in 0..2 : \E p \in NodesAtDepth(index, d) :
               Len(childrenOf(index.nodes, p)) >= 2

(***************************************************************************)
(* C29.  After any sequence of addNgram, addNgramWithCount and             *)
(* updateNgrams calls no two children of the same trie node carry the same *)
(* tokenId, so each id sequence of length <= maxN names at most one node.  *)
(***************************************************************************)
ChildIds(index, p) ==
    LET kids == childrenOf(index.nodes, p)
    IN  [j \in DOMAIN kids |-> index.nodes[kids[j]].tokenId]

\* The id sequence that leads from the root to each node at depth d
RECURSIVE PathsAtDepth(_, _)
PathsAtDepth(index, d) ==
    IF d = 0 THEN {[node |-> index.root, ids |-> <<>>]}
    ELSE UNION { { [node |-> c, ids |-> Append(e.ids, index.nodes[c].tokenId)] :
                     c \in Range(childrenOf(index.nodes, e.node)) } :
                   e \in PathsAtDepth(index, d - 1) }

UniqueChildren(index) ==
    /\ \A p \in DOMAIN index.nodes :
          LET ids == ChildIds(index, p)
          IN  \A i, j \in DOMAIN ids : i # j => ids[i] # ids[j]
    /\ \A d \in 1..index.maxN : \A e, f \in PathsAtDepth(index, d) :
          e.ids = f.ids => e.node = f.node

C29_ChildIdsDistinct ==
    /\ UniqueChildren(model.ngrams)
    /\ loaded # <<>> => UniqueChildren(loaded[1].m.ngrams)

\* A trained trie reloaded over itself: every record of the tables names a
\* node that exists, and a node has several children
C29_Witness ==
    /\ loaded # <<>>
    /\ loaded[1].into.totalTokens > 0
    /\ loaded[1].from = WholeDisk
    /\ LET index == loaded[1].m.ngrams
       IN  /\ \E p \in NodesAtDepth(index, 1) : Len(childrenOf(index.nodes, p)) >= 2
           /\ \E p \in DOMAIN index.nodes : index.nodes[p].count >= 4

(***************************************************************************)
(* C30.  Every iterator obtained from ngramIterator enumerates, through    *)
(* successive nextNgram calls until it returns 0, each unigram child of    *)
(* the root exactly once, in stored order, starting from the first child,  *)
(* whatever other iterators (also over a different index) were made,       *)
(* partly consumed, abandoned or freed before it or interleaved with it.   *)
(***************************************************************************)
IsPrefix(a, b) == Len(a) <= Len(b) /\ a = SubSeq(b, 1, Len(a))

C30_IteratorsIndependent ==
    \A i \in DOMAIN iters.list :
        LET it       == iters.list[i]
            unigrams == ChildIds(IndexOf(it.index), it.node)
        IN  /\ IsPrefix(it.yielded, unigrams)
            /\ it.done => it.yielded = unigrams

====
